---- MODULE Spec2Model ----
(***************************************************************************)
(* Model of the address core of nz-property-valuator (addressMatcher.js): *)
(* the lexicon tables, expandSuburbAbbrev, parseAddress and matchAddress.  *)
(*                                                                         *)
(* JavaScript values are tagged records; a JavaScript string is worked on  *)
(* as a sequence of one-character strings, so that trimming, lowercasing,  *)
(* splitting, searching and the regular expressions of the source are      *)
(* computed character by character.                                        *)
(***************************************************************************)
EXTENDS Integers, Sequences, FiniteSets, TLC

VARIABLES pc, form, raw, suburbHint, cityHint, parsed, labels, records, q, c, verdict,
          tables, heap, calls, now, cache, reqs, backoff, page

\* the arguments and results of one call
parseVars == <<form, raw, suburbHint, cityHint, parsed, labels, records, q, c, verdict>>

\* the lexicon tables, the objects allocated so far and the calls made so far
callVars == <<tables, heap, calls>>

\* the service worker: the clock, the result cache, the FETCH_VALUATIONS
\* messages received so far, each with the state of its fetchers, and one call
\* of fetchWithBackoff
workerVars == <<now, cache, reqs, backoff>>

\* the content script of one tab: its module state, the document it runs
\* in, the browser's timers and its messages to and from the service worker
contentVars == <<page>>

vars == <<pc, parseVars, callVars, workerVars, contentVars>>

---------------------------------------------------------------------------
(* JavaScript values *)

Null      == [type |-> "null"]
Undefined == [type |-> "undefined"]
Str(s)    == [type |-> "string", s |-> s]
Num(n)    == [type |-> "number", n |-> n]
PlainObject       == [type |-> "object", name |-> "{}"]
\* Object.prototype.constructor and Object.prototype, which a property
\* lookup on an object literal reaches through the prototype chain
ObjectConstructor == [type |-> "function", name |-> "Object"]
ObjectPrototype   == [type |-> "object", name |-> "Object.prototype"]
\* the completion of a call that throws
TypeError == [type |-> "TypeError"]

IsString(v) == v.type = "string"

\* ToBoolean, as used by !x, x && y, x || y and if (x)
Truthy(v) ==
  CASE v.type = "null"      -> FALSE
    [] v.type = "undefined" -> FALSE
    [] v.type = "string"    -> v.s # ""
    [] v.type = "number"    -> v.n # 0
    [] OTHER                -> TRUE

\* x || null
OrNull(v) == IF Truthy(v) THEN v ELSE Null

\* x != null (loose): false exactly for null and undefined
NotNullish(v) == v.type # "null" /\ v.type # "undefined"

---------------------------------------------------------------------------
(* Strings as character sequences *)

Chars(s) == [i \in 1..Len(s) |-> SubSeq(s, i, i)]

RECURSIVE TextFrom(_, _)
TextFrom(cs, i) == IF i > Len(cs) THEN "" ELSE cs[i] \o TextFrom(cs, i + 1)

Text(cs) == TextFrom(cs, 1)

Digits     == {"0", "1", "2", "3", "4", "5", "6", "7", "8", "9"}
UpperSeq   == Chars("ABCDEFGHIJKLMNOPQRSTUVWXYZ")
LowerSeq   == Chars("abcdefghijklmnopqrstuvwxyz")
UpperAlpha == {UpperSeq[i] : i \in 1..Len(UpperSeq)}
LowerAlpha == {LowerSeq[i] : i \in 1..Len(LowerSeq)}
\* \s, \w and the characters . does not match
WhiteSpace     == {" ", "\t", "\n", "\r"}
LineTerminator == {"\n", "\r"}
WordChar       == Digits \cup UpperAlpha \cup LowerAlpha \cup {"_"}

LowerMap == [ch \in UpperAlpha |->
               LowerSeq[CHOOSE i \in 1..Len(UpperSeq) : UpperSeq[i] = ch]]

\* String.prototype.toLowerCase
toLowerCase(cs) ==
  [i \in 1..Len(cs) |-> IF cs[i] \in UpperAlpha THEN LowerMap[cs[i]] ELSE cs[i]]

\* s.slice(from) with a 0-based start, as a 1-based suffix
Drop(cs, n) == SubSeq(cs, n + 1, Len(cs))
Take(cs, n) == SubSeq(cs, 1, n)

\* the number of characters of cs from position i on that lie in set
RECURSIVE RunLen(_, _, _)
RunLen(cs, i, set) ==
  IF i > Len(cs) \/ cs[i] \notin set THEN 0 ELSE 1 + RunLen(cs, i + 1, set)

\* the number of characters of cs before position i, going left, that lie in set
RECURSIVE RunLenBack(_, _, _)
RunLenBack(cs, i, set) ==
  IF i < 1 \/ cs[i] \notin set THEN 0 ELSE 1 + RunLenBack(cs, i - 1, set)

\* String.prototype.trim
trim(cs) ==
  LET lead  == RunLen(cs, 1, WhiteSpace)
      trail == RunLenBack(cs, Len(cs), WhiteSpace)
  IN  IF lead = Len(cs) THEN <<>> ELSE SubSeq(cs, lead + 1, Len(cs) - trail)

\* cs.startsWith(pre) at 1-based position i
StartsWithAt(cs, pre, i) ==
  /\ i + Len(pre) - 1 <= Len(cs)
  /\ \A k \in 1..Len(pre) : cs[i + k - 1] = pre[k]

startsWith(cs, pre) == StartsWithAt(cs, pre, 1)

\* the largest and the smallest member of a set of positions, 0 for the empty set
MaxOf(S) == IF S = {} THEN 0 ELSE CHOOSE i \in S : \A j \in S : j <= i
MinOf(S) == IF S = {} THEN 0 ELSE CHOOSE i \in S : \A j \in S : i <= j

\* cs.indexOf(sub) as a 1-based position, 0 when absent
indexOf(cs, sub) == MinOf({i \in 1..(Len(cs) + 1) : StartsWithAt(cs, sub, i)})

\* String.prototype.includes
includes(cs, sub) == indexOf(cs, sub) # 0

\* cs.replace(sub, '') with a string pattern: the first occurrence only
replaceFirst(cs, sub) ==
  LET i == indexOf(cs, sub)
  IN  IF i = 0 THEN cs ELSE Take(cs, i - 1) \o Drop(cs, i - 1 + Len(sub))

\* String.prototype.split with a separator class: at every separator
\* character (runs = FALSE) or at every maximal run of them (runs = TRUE)
RECURSIVE SplitFrom(_, _, _, _)
SplitFrom(cs, i, cur, sep) ==
  IF i > Len(cs) THEN <<cur>>
  ELSE IF cs[i] \in sep.chars
       THEN LET n == IF sep.runs THEN RunLen(cs, i, sep.chars) ELSE 1
            IN  <<cur>> \o SplitFrom(cs, i + n, <<>>, sep)
       ELSE SplitFrom(cs, i + 1, Append(cur, cs[i]), sep)

\* cs.split(/\s+/)
splitWhitespace(cs) == SplitFrom(cs, 1, <<>>, [chars |-> WhiteSpace, runs |-> TRUE])
\* cs.split(/[,;]/)
splitCommaSemi(cs)  == SplitFrom(cs, 1, <<>>, [chars |-> {",", ";"}, runs |-> FALSE])

\* Array.prototype.join(' ')
RECURSIVE JoinFrom(_, _)
JoinFrom(ws, i) ==
  IF i > Len(ws) THEN <<>>
  ELSE IF i = Len(ws) THEN ws[i]
  ELSE ws[i] \o <<" ">> \o JoinFrom(ws, i + 1)

join(ws) == JoinFrom(ws, 1)

\* /\b(\d{4})\b/.exec(cs): the 1-based start of the first run of exactly the
\* four digits that has a word boundary on both sides, 0 when there is none
FourDigitTokenAt(cs, i) ==
  /\ i + 3 <= Len(cs)
  /\ \A k \in 0..3 : cs[i + k] \in Digits
  /\ (i = 1 \/ cs[i - 1] \notin WordChar)
  /\ (i + 4 > Len(cs) \/ cs[i + 4] \notin WordChar)

postcodeIndex(cs) == MinOf({i \in 1..Len(cs) : FourDigitTokenAt(cs, i)})

\* cs.replace(/\b\d{4}\b/, '')
stripPostcodeToken(cs) ==
  LET i == postcodeIndex(cs)
  IN  IF i = 0 THEN cs ELSE Take(cs, i - 1) \o Drop(cs, i + 3)

\* cs.replace(/\d{5,}\s*$/, ''): the leftmost match starts at the head of the
\* digit run that ends the string (before any trailing whitespace)
stripPropertyId(cs) ==
  LET trail == RunLenBack(cs, Len(cs), WhiteSpace)
      digs  == RunLenBack(cs, Len(cs) - trail, Digits)
  IN  IF digs >= 5 THEN Take(cs, Len(cs) - trail - digs) ELSE cs

\* cs.replace(/\s*-\s*\w+$/, ''): the hyphen is the last one of the string,
\* followed by optional whitespace and word characters up to the end; the
\* leftmost match also takes the whitespace in front of the hyphen
dashSuffixAt(cs, j, ws) ==
  IF j = 0 THEN cs
  ELSE IF RunLen(cs, j + 1 + ws, WordChar) >= 1
          /\ j + ws + RunLen(cs, j + 1 + ws, WordChar) = Len(cs)
       THEN Take(cs, j - 1 - RunLenBack(cs, j - 1, WhiteSpace))
       ELSE cs

lastHyphen(cs) == MaxOf({i \in 1..Len(cs) : cs[i] = "-"})

stripDashFrom(cs, j) == dashSuffixAt(cs, j, RunLen(cs, j + 1, WhiteSpace))

stripDashSuffix(cs) == stripDashFrom(cs, lastHyphen(cs))

---------------------------------------------------------------------------
(* Lexicon *)

STREET_TYPE_MAP ==
  [st   |-> "street",  rd   |-> "road",      ave  |-> "avenue",    av  |-> "avenue",
   dr   |-> "drive",   cres |-> "crescent",  cr   |-> "crescent",
   pl   |-> "place",   tce  |-> "terrace",   tc   |-> "terrace",
   hwy  |-> "highway", ln   |-> "lane",      ct   |-> "court",
   pde  |-> "parade",  esp  |-> "esplanade", blvd |-> "boulevard", bvd |-> "boulevard",
   gr   |-> "grove",   gv   |-> "grove",     rs   |-> "rise",
   wy   |-> "way",     cl   |-> "close",     clo  |-> "close",
   sq   |-> "square",  pk   |-> "park",      gdn  |-> "garden",    gdns |-> "gardens",
   bch  |-> "beach",   bdwy |-> "broadway",  fwy  |-> "freeway"]

CANONICAL_STREET_TYPES ==
  {"street", "road", "avenue", "drive", "crescent", "place", "terrace", "highway",
   "lane", "court", "parade", "esplanade", "boulevard", "grove", "rise", "way",
   "close", "square", "park", "garden", "gardens", "beach", "broadway", "freeway",
   "mews", "quay", "track", "walk", "loop", "access", "view", "heights"}

SUBURB_ABBREV_MAP ==
  << <<Chars("st "), Chars("saint ")>>,
     <<Chars("mt "), Chars("mount ")>>,
     <<Chars("pt "), Chars("point ")>> >>

\* STREET_TYPE_MAP[w]: a property read on an object literal, which finds the
\* table's own keys and, through the prototype chain, the properties of
\* Object.prototype whose names are all lowercase
StreetTypeLookup(w) ==
  IF w \in DOMAIN STREET_TYPE_MAP THEN Str(STREET_TYPE_MAP[w])
  ELSE IF w = "constructor" THEN ObjectConstructor
  ELSE IF w = "__proto__" THEN ObjectPrototype
  ELSE Undefined

\* CANONICAL_STREET_TYPES.has(w) || STREET_TYPE_MAP[w]
IsStreetTypeWord(w) == w \in CANONICAL_STREET_TYPES \/ Truthy(StreetTypeLookup(w))

\* expandSuburbAbbrev on the characters of a string
RECURSIVE ExpandFrom(_, _)
ExpandFrom(cs, k) ==
  IF k > Len(SUBURB_ABBREV_MAP) THEN cs
  ELSE IF startsWith(toLowerCase(cs), SUBURB_ABBREV_MAP[k][1])
       THEN SUBURB_ABBREV_MAP[k][2] \o Drop(cs, Len(SUBURB_ABBREV_MAP[k][1]))
       ELSE ExpandFrom(cs, k + 1)

\* the expansion with startsWith on s itself, not on its lowercase form
RECURSIVE ExpandExactFrom(_, _)
ExpandExactFrom(cs, k) ==
  IF k > Len(SUBURB_ABBREV_MAP) THEN cs
  ELSE IF startsWith(cs, SUBURB_ABBREV_MAP[k][1])
       THEN SUBURB_ABBREV_MAP[k][2] \o Drop(cs, Len(SUBURB_ABBREV_MAP[k][1]))
       ELSE ExpandExactFrom(cs, k + 1)

expandChars_exact(cs) == IF cs = <<>> THEN cs ELSE ExpandExactFrom(cs, 1)

expandChars(cs) == IF cs = <<>> THEN cs ELSE ExpandFrom(cs, 1)

\* expandSuburbAbbrev(s) on a JavaScript value: a falsy s is returned as it is
expandSuburbAbbrev(v) ==
  IF ~Truthy(v) THEN v ELSE Str(Text(expandChars(Chars(v.s))))

---------------------------------------------------------------------------
(* The regular expressions of parseAddress, matched from left to right.    *)
(* A match state is the position reached and the groups captured so far.   *)
(* Each greedy step below is followed by a separator, a digit or the end   *)
(* of the string, so that giving characters back never yields a match the  *)
(* greedy choice misses; the one exception, \s+(.+), is handled in mRest.  *)

Alpha == UpperAlpha \cup LowerAlpha

Start == [ok |-> TRUE, pos |-> 1, groups |-> <<>>]
Fail  == [ok |-> FALSE, pos |-> 0, groups |-> <<>>]

\* (\d+[a-z]?) with the i flag at position i: the length matched, 0 for none
NumTokenLen(cs, i) ==
  LET d == RunLen(cs, i, Digits)
  IN  IF d = 0 THEN 0
      ELSE IF i + d <= Len(cs) /\ cs[i + d] \in Alpha THEN d + 1 ELSE d

Advance(cs, st, n, capture) ==
  IF ~st.ok \/ n = 0 THEN Fail
  ELSE [ok |-> TRUE, pos |-> st.pos + n,
        groups |-> IF capture THEN Append(st.groups, SubSeq(cs, st.pos, st.pos + n - 1))
                   ELSE st.groups]

\* (\d+[a-z]?), captured
mNum(cs, st) == Advance(cs, st, NumTokenLen(cs, st.pos), TRUE)

\* [set]+
mClass(cs, st, set) == Advance(cs, st, RunLen(cs, st.pos, set), FALSE)

\* one literal character
mLit(cs, st, ch) ==
  Advance(cs, st, IF st.pos <= Len(cs) /\ cs[st.pos] = ch THEN 1 ELSE 0, FALSE)

UNIT_KEYWORDS == <<Chars("unit"), Chars("flat"), Chars("apt"), Chars("apartment"), Chars("lot")>>

\* the length of the first keyword low starts with, 0 for none
RECURSIVE KeywordLen(_, _)
KeywordLen(low, k) ==
  IF k > Len(UNIT_KEYWORDS) THEN 0
  ELSE IF startsWith(low, UNIT_KEYWORDS[k]) THEN Len(UNIT_KEYWORDS[k])
  ELSE KeywordLen(low, k + 1)

\* ^(?:unit|flat|apt|apartment|lot) with the i flag (no keyword is a prefix
\* of another, so the first alternative that matches is the only one)
mKeyword(cs, st) == Advance(cs, st, KeywordLen(toLowerCase(cs), 1), FALSE)

\* $
mEnd(cs, st) == IF st.ok /\ st.pos = Len(cs) + 1 THEN st ELSE Fail

CharsOf(cs) == {cs[k] : k \in 1..Len(cs)}

\* where (.+) starts after \s+ from position i: \s+ takes the whole run of
\* whitespace, and when that run reaches the end of the string it gives back
\* characters up to the last one that . can match; 0 for no match
RestStart(cs, i, ws) ==
  IF ws = 0 THEN 0
  ELSE MaxOf({p \in (i + 1)..(IF i + ws <= Len(cs) THEN i + ws ELSE Len(cs)) :
                cs[p] \notin LineTerminator})

\* (.+) from position p0: everything up to the next line terminator
RestFrom(cs, st, p0) ==
  IF ~st.ok \/ p0 = 0 THEN Fail
  ELSE Advance(cs, [st EXCEPT !.pos = p0],
               RunLen(cs, p0, CharsOf(cs) \ LineTerminator), TRUE)

\* \s+(.+), captured
mRest(cs, st) == RestFrom(cs, st, RestStart(cs, st.pos, RunLen(cs, st.pos, WhiteSpace)))

\* /^(?:unit|flat|apt|apartment|lot)\s+\d+[a-z]?$/i.test(cs)
IsBareUnitPrefix(cs) ==
  mEnd(cs, mNum(cs, mClass(cs, mKeyword(cs, Start), WhiteSpace))).ok

\* Pattern A: /^(\d+[a-z]?)\/(\d+[a-z]?)\s+(.+)/i
patA(cs) == mRest(cs, mNum(cs, mLit(cs, mNum(cs, Start), "/")))

\* Pattern B: /^(?:unit|flat|apt|apartment|lot)\s+(\d+[a-z]?)[,\s]+(\d+[a-z]?)\s+(.+)/i
patB(cs) ==
  mRest(cs, mNum(cs, mClass(cs, mNum(cs, mClass(cs, mKeyword(cs, Start), WhiteSpace)),
                            WhiteSpace \cup {","})))

\* Pattern C: /^(\d+[a-z]?)\s+(.+)/i, with unitNum = null as the first group
NoUnit == [ok |-> TRUE, pos |-> 1, groups |-> << <<>> >>]

patC(cs) == mRest(cs, mNum(cs, NoUnit))

---------------------------------------------------------------------------
(* parseAddress *)

_invalid ==
  [unitNum |-> Null, houseNum |-> Null, streetName |-> Null, streetType |-> Null,
   suburb |-> Null, city |-> Null, postcode |-> Null, valid |-> FALSE]

NoRunOn == [found |-> FALSE, streetPart |-> <<>>, localityPart |-> <<>>, postcode |-> <<>>]

\* the largest index i >= 1 (0-based) of a street type word, 0 for none
streetTypeIdx(words) ==
  MaxOf({i \in 2..Len(words) : IsStreetTypeWord(Text(toLowerCase(words[i])))}) - 1

\* the split of the cleaned words after the street type word
runOnSplit(words, postcode, idx) ==
  IF idx <= 0 THEN NoRunOn
  ELSE [found        |-> TRUE,
        streetPart   |-> join(SubSeq(words, 1, idx + 1)),
        localityPart |-> trim(join(SubSeq(words, idx + 2, Len(words)))),
        postcode     |-> postcode]

\* the words left once the property ID and the postcode are stripped
runOnWords(input, postcode) ==
  splitWhitespace(trim(replaceFirst(stripPropertyId(input), postcode)))

runOnClean(words, postcode) == runOnSplit(words, postcode, streetTypeIdx(words))

runOnAt(input, pi) ==
  IF pi = 0 THEN NoRunOn
  ELSE runOnClean(runOnWords(input, SubSeq(input, pi, pi + 3)), SubSeq(input, pi, pi + 3))

\* Run-on slug detection (no comma, no semicolon, a 4-digit token, a street
\* type word at an index >= 1 of the cleaned words)
runOnLocality(input) ==
  IF includes(input, <<",">>) \/ includes(input, <<";">>) THEN NoRunOn
  ELSE runOnAt(input, postcodeIndex(input))

\* input.search(/[,;]/) as a 1-based position, 0 when absent
searchCommaSemi(cs) == MinOf({i \in 1..Len(cs) : cs[i] \in {",", ";"}})

NonEmpty(cs) == cs # <<>>

\* parts.map(s => s.trim()).filter(Boolean)
trimmedNonEmpty(parts) == SelectSeq([i \in 1..Len(parts) |-> trim(parts[i])], NonEmpty)

\* the split at the first comma or semicolon
commaSplit(input, splitIdx) ==
  IF splitIdx = 0
  THEN [streetPart |-> input, localityParts |-> <<>>, postcode |-> Null]
  ELSE [streetPart    |-> trim(Take(input, splitIdx - 1)),
        localityParts |-> trimmedNonEmpty(splitCommaSemi(Drop(input, splitIdx))),
        postcode      |-> Null]

\* Split street from locality
streetAndLocality(input, ro) ==
  IF ro.found
  THEN [streetPart    |-> ro.streetPart,
        localityParts |-> IF ro.localityPart # <<>> THEN <<ro.localityPart>> ELSE <<>>,
        postcode      |-> Str(Text(ro.postcode))]
  ELSE commaSplit(input, searchCommaSemi(input))

\* rejoinUnitPrefix without the rejoin
rejoinUnitPrefix_off(sl) == sl

\* the unit-prefix rejoin
rejoinUnitPrefix(sl) ==
  IF IsBareUnitPrefix(sl.streetPart) /\ Len(sl.localityParts) > 0
  THEN [sl EXCEPT !.streetPart    = sl.streetPart \o <<",", " ">> \o Head(sl.localityParts),
                  !.localityParts = Tail(sl.localityParts)]
  ELSE sl

splitStreetLocality(input) == rejoinUnitPrefix(streetAndLocality(input, runOnLocality(input)))

OrElse(m1, m2) == IF m1.ok THEN m1 ELSE m2

\* Patterns A, B and C in order: unit (<<>> for none), house and street body
unitHouseBody(streetPart) ==
  OrElse(patA(streetPart), OrElse(patB(streetPart), patC(streetPart)))

\* street type and name, given the words of the street body and the last
\* word in lowercase
typeAndName(words, lastWord, fromMap) ==
  IF Truthy(fromMap)
  THEN [streetType |-> fromMap, nameWords |-> SubSeq(words, 1, Len(words) - 1)]
  ELSE IF lastWord \in CANONICAL_STREET_TYPES
  THEN [streetType |-> Str(lastWord), nameWords |-> SubSeq(words, 1, Len(words) - 1)]
  ELSE [streetType |-> Null, nameWords |-> words]

lastWordOf(words) == Text(toLowerCase(words[Len(words)]))

streetWords(words, lastWord) == typeAndName(words, lastWord, StreetTypeLookup(lastWord))

expandedName(tn) ==
  [streetType |-> tn.streetType,
   streetName |-> expandSuburbAbbrev(Str(Text(toLowerCase(join(tn.nameWords)))))]

bodyWords(words) == expandedName(streetWords(words, lastWordOf(words)))

\* Street name and type from the street body
streetNameType(streetBody) == bodyWords(splitWhitespace(trim(streetBody)))

\* the first 4-digit token of the parts, in order; Null when there is none
RECURSIVE firstPostcode(_, _)
firstPostcode(parts, i) ==
  IF i > Len(parts) THEN Null
  ELSE IF postcodeIndex(parts[i]) # 0
       THEN Str(Text(SubSeq(parts[i], postcodeIndex(parts[i]), postcodeIndex(parts[i]) + 3)))
       ELSE firstPostcode(parts, i + 1)

\* hintValue with the prefix expansion of the other branch applied
hintValue_expanded(hint) ==
  IF Truthy(hint) THEN expandSuburbAbbrev(Str(Text(trim(toLowerCase(Chars(hint.s)))))) ELSE Null

\* hint.toLowerCase().trim() of a truthy string hint, null otherwise
hintValue(hint) ==
  IF Truthy(hint) THEN Str(Text(trim(toLowerCase(Chars(hint.s))))) ELSE Null

\* Locality from the hints
localityFromHints(localityParts, postcode0, sHint, cHint) ==
  [suburb   |-> hintValue(sHint),
   city     |-> hintValue(cHint),
   postcode |-> IF Truthy(postcode0) THEN postcode0 ELSE firstPostcode(localityParts, 1)]

\* p.replace(/\s*-\s*\w+$/, '').trim() for every part
cleanParts(localityParts) ==
  [i \in 1..Len(localityParts) |-> trim(stripDashSuffix(localityParts[i]))]

\* the parts without their postcode token, the empty ones dropped
localWords(clean) ==
  SelectSeq([i \in 1..Len(clean) |-> trim(stripPostcodeToken(clean[i]))], NonEmpty)

localWord(words, i) ==
  IF Len(words) >= i THEN expandSuburbAbbrev(Str(Text(toLowerCase(words[i])))) ELSE Null

localityFromClean(clean, words, postcode0) ==
  [suburb   |-> localWord(words, 1),
   city     |-> localWord(words, 2),
   postcode |-> IF Truthy(postcode0) THEN postcode0 ELSE firstPostcode(clean, 1)]

cleanLocality(clean, postcode0) == localityFromClean(clean, localWords(clean), postcode0)

\* Locality from the comma-separated parts
localityFromParts(localityParts, postcode0) == cleanLocality(cleanParts(localityParts), postcode0)

\* a method call on a truthy hint that is not a string throws
HintThrows(hint) == Truthy(hint) /\ ~IsString(hint)

assemble(unit, house, snt, loc) ==
  [unitNum    |-> IF unit = <<>> THEN Null ELSE Str(Text(toLowerCase(unit))),
   houseNum   |-> Str(Text(toLowerCase(house))),
   streetName |-> snt.streetName,
   streetType |-> snt.streetType,
   suburb     |-> OrNull(loc.suburb),
   city       |-> OrNull(loc.city),
   postcode   |-> OrNull(loc.postcode),
   valid      |-> TRUE]

\* parseStreet returning the run-on postcode with an invalid result
parseStreet_keepPostcode(sl, uhb, sHint, cHint) ==
  IF ~uhb.ok THEN [_invalid EXCEPT !.postcode = sl.postcode]
  ELSE IF NotNullish(sHint) \/ NotNullish(cHint)
  THEN IF HintThrows(sHint) \/ HintThrows(cHint) THEN TypeError
       ELSE assemble(uhb.groups[1], uhb.groups[2], streetNameType(uhb.groups[3]),
                     localityFromHints(sl.localityParts, sl.postcode, sHint, cHint))
  ELSE assemble(uhb.groups[1], uhb.groups[2], streetNameType(uhb.groups[3]),
                localityFromParts(sl.localityParts, sl.postcode))

\* the rest of parseAddress once unit, house and street body are known
parseStreet(sl, uhb, sHint, cHint) ==
  IF ~uhb.ok THEN _invalid
  ELSE IF NotNullish(sHint) \/ NotNullish(cHint)
  THEN IF HintThrows(sHint) \/ HintThrows(cHint) THEN TypeError
       ELSE assemble(uhb.groups[1], uhb.groups[2], streetNameType(uhb.groups[3]),
                     localityFromHints(sl.localityParts, sl.postcode, sHint, cHint))
  ELSE assemble(uhb.groups[1], uhb.groups[2], streetNameType(uhb.groups[3]),
                localityFromParts(sl.localityParts, sl.postcode))

parseSplit(sl, sHint, cHint) == parseStreet(sl, unitHouseBody(sl.streetPart), sHint, cHint)

\* parseAddress without the typeof test: raw.trim() of a truthy value that is
\* not a string throws
parseAddress_noTypeCheck(rawArg, sHint, cHint) ==
  IF ~Truthy(rawArg) THEN _invalid
  ELSE IF ~IsString(rawArg) THEN TypeError
  ELSE parseSplit(splitStreetLocality(trim(Chars(rawArg.s))), sHint, cHint)

parseAddress(rawArg, sHint, cHint) ==
  IF ~Truthy(rawArg) \/ ~IsString(rawArg) THEN _invalid
  ELSE parseSplit(splitStreetLocality(trim(Chars(rawArg.s))), sHint, cHint)

---------------------------------------------------------------------------
(* matchAddress *)

NO == [match |-> FALSE, confidence |-> Null]

\* compatible without its last test: the candidate's suburb has to be within
\* the query's
compatible_oneWay(a, b) ==
  LET x == Chars(a.s)
      y == Chars(b.s)
  IN  x = y \/ includes(x, y)

\* qSub === cSub || qSub.includes(cSub) || cSub.includes(qSub), on string values
compatible(a, b) ==
  LET x == Chars(a.s)
      y == Chars(b.s)
  IN  x = y \/ includes(x, y) \/ includes(y, x)

\* !x for an argument that is a record, null or undefined
Missing(x) == x = Null \/ x = Undefined

\* rejected with rule 4 strict: an absent street type differs from a present one
rejected_strictType(qq, cc) ==
  \/ Missing(qq) \/ ~qq.valid \/ Missing(cc) \/ ~cc.valid
  \/ qq.houseNum # cc.houseNum
  \/ IF qq.unitNum # Null
     THEN cc.unitNum = Null \/ qq.unitNum # cc.unitNum
     ELSE cc.unitNum # Null
  \/ qq.streetName # cc.streetName
  \/ qq.streetType # cc.streetType
  \/ (Truthy(qq.suburb) /\ Truthy(cc.suburb)
      /\ ~compatible(expandSuburbAbbrev(qq.suburb), expandSuburbAbbrev(cc.suburb)))

\* rejected with rule 2 strict only for a query that has a unit
rejected_unitFallback(qq, cc) ==
  \/ Missing(qq) \/ ~qq.valid \/ Missing(cc) \/ ~cc.valid
  \/ qq.houseNum # cc.houseNum
  \/ IF qq.unitNum # Null
     THEN cc.unitNum = Null \/ qq.unitNum # cc.unitNum
     ELSE FALSE
  \/ qq.streetName # cc.streetName
  \/ (qq.streetType # Null /\ cc.streetType # Null /\ qq.streetType # cc.streetType)
  \/ (Truthy(qq.suburb) /\ Truthy(cc.suburb)
      /\ ~compatible(expandSuburbAbbrev(qq.suburb), expandSuburbAbbrev(cc.suburb)))

\* rejected with rule 2 asking for a unit on both sides
rejected_unitRequired(qq, cc) ==
  \/ Missing(qq) \/ ~qq.valid \/ Missing(cc) \/ ~cc.valid
  \/ qq.houseNum # cc.houseNum
  \/ qq.unitNum = Null \/ cc.unitNum = Null \/ qq.unitNum # cc.unitNum
  \/ qq.streetName # cc.streetName
  \/ (qq.streetType # Null /\ cc.streetType # Null /\ qq.streetType # cc.streetType)
  \/ (Truthy(qq.suburb) /\ Truthy(cc.suburb)
      /\ ~compatible(expandSuburbAbbrev(qq.suburb), expandSuburbAbbrev(cc.suburb)))

\* rejected with a guard that does not look at the candidate's valid flag
rejected_candidateUnchecked(qq, cc) ==
  \/ Missing(qq) \/ ~qq.valid \/ Missing(cc)
  \/ qq.houseNum # cc.houseNum
  \/ IF qq.unitNum # Null
     THEN cc.unitNum = Null \/ qq.unitNum # cc.unitNum
     ELSE cc.unitNum # Null
  \/ qq.streetName # cc.streetName
  \/ (qq.streetType # Null /\ cc.streetType # Null /\ qq.streetType # cc.streetType)
  \/ (Truthy(qq.suburb) /\ Truthy(cc.suburb)
      /\ ~compatible(expandSuburbAbbrev(qq.suburb), expandSuburbAbbrev(cc.suburb)))

\* rejected with rule 5 on the suburbs as they are in the records
rejected_rawSuburb(qq, cc) ==
  \/ Missing(qq) \/ ~qq.valid \/ Missing(cc) \/ ~cc.valid
  \/ qq.houseNum # cc.houseNum
  \/ IF qq.unitNum # Null
     THEN cc.unitNum = Null \/ qq.unitNum # cc.unitNum
     ELSE cc.unitNum # Null
  \/ qq.streetName # cc.streetName
  \/ (qq.streetType # Null /\ cc.streetType # Null /\ qq.streetType # cc.streetType)
  \/ (Truthy(qq.suburb) /\ Truthy(cc.suburb) /\ ~compatible(qq.suburb, cc.suburb))

\* Guard and rules 1 to 5: TRUE when the pair is rejected
rejected(qq, cc) ==
  \/ Missing(qq) \/ ~qq.valid \/ Missing(cc) \/ ~cc.valid
  \/ qq.houseNum # cc.houseNum
  \/ IF qq.unitNum # Null
     THEN cc.unitNum = Null \/ qq.unitNum # cc.unitNum
     ELSE cc.unitNum # Null
  \/ qq.streetName # cc.streetName
  \/ (qq.streetType # Null /\ cc.streetType # Null /\ qq.streetType # cc.streetType)
  \/ (Truthy(qq.suburb) /\ Truthy(cc.suburb)
      /\ ~compatible(expandSuburbAbbrev(qq.suburb), expandSuburbAbbrev(cc.suburb)))

\* the locality score of a pair that passed the rules
score(qq, cc) ==
    (IF Truthy(qq.suburb) /\ Truthy(cc.suburb)
        /\ compatible(expandSuburbAbbrev(qq.suburb), expandSuburbAbbrev(cc.suburb))
     THEN 2 ELSE 0)
  + (IF Truthy(qq.city) /\ Truthy(cc.city) /\ compatible(qq.city, cc.city)
     THEN 1 ELSE 0)
  + (IF Truthy(qq.postcode) /\ Truthy(cc.postcode) /\ qq.postcode = cc.postcode
     THEN 2 ELSE 0)

\* confidenceOf with "high" above 3 only
confidenceOf_above3(n) == IF n > 3 THEN Str("high") ELSE IF n >= 1 THEN Str("medium") ELSE Str("low")

confidenceOf(n) == IF n >= 3 THEN Str("high") ELSE IF n >= 1 THEN Str("medium") ELSE Str("low")

\* matchAddress with unitFallback set for every candidate that has a unit
matchAddress_candidateUnit(qq, cc) ==
  IF rejected(qq, cc) THEN NO
  ELSE [match        |-> TRUE,
        confidence   |-> confidenceOf(score(qq, cc)),
        unitFallback |-> cc.unitNum # Null]

matchAddress(qq, cc) ==
  IF rejected(qq, cc) THEN NO
  ELSE [match        |-> TRUE,
        confidence   |-> confidenceOf(score(qq, cc)),
        unitFallback |-> (qq.unitNum = Null /\ cc.unitNum # Null)]

\* the first key of the comparator of findBest and pickBest:
\* (a.r.unitFallback ? 1 : 0); NO has no unitFallback
unitFallbackRank(v) == IF v.match /\ v.unitFallback THEN 1 ELSE 0

\* the test of findExact's preference: qp.unitNum === null and the match is
\* not a record without unit, so that a later match may be taken before it
passedOver(qq, cc) == qq.unitNum = Null /\ cc.unitNum # Null

---------------------------------------------------------------------------
(* Inputs.  An address string is composed of a house number, the words of   *)
(* a street name, a street type word and a locality tail; form records how. *)

\* the longest street name, in words, and the most locality parts and
\* run-on locality words an input is composed of
MaxNameWords     == 2
MaxLocalityParts == 2
MaxLocalityWords == 2

SeqsFromTo(S, m, n) == UNION {[1..k -> S] : k \in m..n}

\* the strings of ws, each preceded by sep
RECURSIVE Prefixed(_, _, _)
Prefixed(ws, sep, i) ==
  IF i > Len(ws) THEN "" ELSE sep \o ws[i] \o Prefixed(ws, sep, i + 1)

\* " w" for a word, nothing for no word
Spaced(w) == IF w = "" THEN "" ELSE " " \o w

Houses        == {"42", "42B", "1234", "12345"}
Units         == {"1", "2A"}
NameVocab     == {"Mt", "Eden", "Park"}
LocalityVocab == {"Remuera", "Auckland 1050", "St Heliers", "Auckland - City", "1071"}
SlugVocab     == {"Tuakau", "Mt"}
Postcodes     == {"2121"}
PropertyIds   == {"", "1234567"}

Abbreviations == DOMAIN STREET_TYPE_MAP
\* the last word of a street body: none, an abbreviation, a canonical word
\* (in either case), or another word
SomeTypeWords == {"", "Rd", "Road", "ST", "Mews", "Constructor", "__proto__"}
SlugTypeWords == {"", "Rd", "Street"}
Bodies        == {" Eden Rd", " Mt Eden", " Road", " Smith STREET", " 9 Mile Rd"}
UnitPrefixes  == {"", "1/", "Unit 2A, ", "flat 1 "}

\* "h n t": the street alone, with every type word of the lexicon
StreetForms ==
  [kind : {"street"}, house : Houses, name : SeqsFromTo(NameVocab, 0, MaxNameWords),
   type : Abbreviations \cup CANONICAL_STREET_TYPES \cup SomeTypeWords]

\* "h body, part, ..." with or without a unit in front
CommaForms ==
  [kind : {"comma"}, prefix : UnitPrefixes, house : Houses, body : Bodies,
   parts : SeqsFromTo(LocalityVocab, 0, MaxLocalityParts)]

\* "h n t words postcode id" without comma
SlugForms ==
  [kind : {"slug"}, house : Houses, name : SeqsFromTo(NameVocab, 0, MaxNameWords),
   type : SlugTypeWords, words : SeqsFromTo(SlugVocab, 1, MaxLocalityWords),
   postcode : Postcodes, id : PropertyIds]

Render(f) ==
  CASE f.kind = "street" -> f.house \o Prefixed(f.name, " ", 1) \o Spaced(f.type)
    [] f.kind = "comma"  -> f.prefix \o f.house \o f.body \o Prefixed(f.parts, ", ", 1)
    [] f.kind = "slug"   -> f.house \o Prefixed(f.name, " ", 1) \o Spaced(f.type)
                            \o Prefixed(f.words, " ", 1) \o " " \o f.postcode \o Spaced(f.id)
    [] f.kind = "hinted" -> f.street \o Prefixed(f.parts, f.sep, 1)

\* strings without a street body, and values that are not strings
OddValues == {Str(""), Str("   "), Str("Smith Street"), Str("Unit 2"), Str("42"),
              Str("42ab Smith St"), Str("Flat 1, Remuera"), Str(" 7  Mt  Eden Rd ;; Epsom ,"),
              Null, Undefined, Num(0), Num(42), PlainObject}

HintValues == {Null, Undefined, Str(""), Str("  "), Str(" St Heliers "), Str("Auckland")}
HintedRaws == {Str("42 Eden Rd"), Str("1/42 Eden Rd, Remuera 1050, Auckland"),
               Str("42 Eden Rd Tuakau 2121"), Str("42 Eden Rd, Epsom 1023, Auckland 1010"),
               Str("Eden Rd")}

\* argument lists given as they are
OtherForms ==
       [kind : {"other"}, raw : OddValues, suburbHint : {Undefined}, cityHint : {Undefined}]
  \cup [kind : {"other"}, raw : HintedRaws, suburbHint : HintValues, cityHint : HintValues]
  \cup [kind : {"other"}, raw : {Str("42 Eden Rd"), Str("Eden Rd"), Num(42)},
        suburbHint : {Num(7)}, cityHint : {PlainObject, Undefined}]

\* a street with locality text behind it, after a comma or run on, and hints
HintForms ==
  [kind : {"hinted"}, street : {"1/42 Eden Rd"}, sep : {", ", " "},
   parts : SeqsFromTo(LocalityVocab, 0, MaxLocalityParts),
   suburbHint : HintValues, cityHint : HintValues]

\* run-on strings whose house number of five digits begins with the digits
\* of the postcode
LongHouseForms ==
  [kind : {"slug"}, house : {"21210"}, name : {<<"Eden">>}, type : SlugTypeWords,
   words : SeqsFromTo(SlugVocab, 1, 1), postcode : Postcodes, id : PropertyIds]

\* locality parts with a hyphen: a qualifier behind a name, and a name
\* written with a hyphen
HyphenForms ==
  [kind : {"comma"}, prefix : {""}, house : {"42"}, body : {" Eden Rd"},
   parts : SeqsFromTo({"Saint-Heliers", "Auckland - City", "1071"}, 1, MaxLocalityParts)]

ParseForms ==
  StreetForms \cup CommaForms \cup HyphenForms \cup SlugForms \cup LongHouseForms
  \cup OtherForms \cup HintForms

\* one logical address (unit, house, street body, locality parts) in the
\* four source formats
FormatForms ==
  [kind : {"formats"}, unit : Units, house : Houses, body : Bodies,
   parts : SeqsFromTo(LocalityVocab, 1, MaxLocalityParts)]

Formats(f) ==
  << f.unit \o "/" \o f.house \o f.body \o Prefixed(f.parts, ", ", 1),
     "Unit " \o f.unit \o ", " \o f.house \o f.body \o Prefixed(f.parts, ", ", 1),
     "Flat " \o f.unit \o ", " \o f.house \o f.body \o Prefixed(f.parts, ", ", 1),
     "Flat " \o f.unit \o " " \o f.house \o f.body \o Prefixed(f.parts, ", ", 1) >>

\* the records matchAddress is called with: every combination of a few
\* values per field, records marked invalid, and a missing argument
HouseNums    == {Str("42"), Str("042")}
UnitNums     == {Null, Str("1"), Str("2")}
StreetNames  == {Str("smith"), Str("mount eden")}
StreetTypes  == {Null, Str("street"), Str("road")}
Suburbs      == {Null, Str("mt eden"), Str("mount eden village"), Str("remuera")}
Cities       == {Null, Str("auckland"), Str("auckland city"), Str("city")}
PostcodeVals == {Null, Str("1050"), Str("1071")}

ValidRecords ==
  [unitNum : UnitNums, houseNum : HouseNums, streetName : StreetNames,
   streetType : StreetTypes, suburb : Suburbs, city : Cities, postcode : PostcodeVals,
   valid : {TRUE}]

SampleRecord ==
  [unitNum |-> Null, houseNum |-> Str("42"), streetName |-> Str("smith"),
   streetType |-> Str("street"), suburb |-> Str("remuera"), city |-> Str("auckland"),
   postcode |-> Str("1050"), valid |-> TRUE]

InvalidArgs == {Null, Undefined, _invalid, [SampleRecord EXCEPT !.valid = FALSE]}

---------------------------------------------------------------------------
(* The callers of the address core.  The arguments of a call are drawn in   *)
(* the initial state; an action is one call, or the calls of one caller.    *)

NotCalled == [type |-> "not called"]

\* cache = new Map()
NoCache == <<>>

\* the three tables of the module scope
Lexicon ==
  [STREET_TYPE_MAP |-> STREET_TYPE_MAP, CANONICAL_STREET_TYPES |-> CANONICAL_STREET_TYPES,
   SUBURB_ABBREV_MAP |-> SUBURB_ABBREV_MAP]

\* parseAddress on one argument list, or on the four formats of one address
Init ==
  /\ pc = "idle"
  /\ form \in ParseForms \cup FormatForms
  /\ raw = IF form.kind = "formats" THEN NotCalled
           ELSE IF form.kind = "other" THEN form.raw ELSE Str(Render(form))
  /\ suburbHint = IF form.kind = "formats" THEN NotCalled
                  ELSE IF form.kind \in {"other", "hinted"} THEN form.suburbHint ELSE Undefined
  /\ cityHint = IF form.kind = "formats" THEN NotCalled
                ELSE IF form.kind \in {"other", "hinted"} THEN form.cityHint ELSE Undefined
  /\ labels = IF form.kind = "formats" THEN Formats(form) ELSE <<>>
  /\ parsed = NotCalled /\ records = <<>>
  /\ q = NotCalled /\ c = NotCalled /\ verdict = NotCalled
  /\ tables = Lexicon /\ heap = <<>> /\ calls = <<>>
  /\ now = 0 /\ cache = NoCache /\ reqs = <<>> /\ backoff = NotCalled /\ page = NotCalled

\* parsed = parseAddress(raw, suburbHint, cityHint)
Parse ==
  /\ pc = "idle" /\ raw # NotCalled
  /\ parsed' = parseAddress(raw, suburbHint, cityHint)
  /\ pc' = "parsed"
  /\ UNCHANGED <<form, raw, suburbHint, cityHint, labels, records, q, c, verdict, callVars, workerVars, contentVars>>

\* records = labels.map(l => parseAddress(l))
ParseFormats ==
  /\ pc = "idle" /\ labels # <<>>
  /\ records' = [i \in 1..Len(labels) |-> parseAddress(Str(labels[i]), Undefined, Undefined)]
  /\ pc' = "formats"
  /\ UNCHANGED <<form, raw, suburbHint, cityHint, parsed, labels, q, c, verdict, callVars, workerVars, contentVars>>

\* verdict = matchAddress(p, p) for the record p parseAddress returned
MatchSelf ==
  /\ pc = "parsed" /\ parsed # TypeError
  /\ q' = parsed /\ c' = parsed
  /\ verdict' = matchAddress(parsed, parsed)
  /\ pc' = "matched"
  /\ UNCHANGED <<form, raw, suburbHint, cityHint, parsed, labels, records, callVars, workerVars, contentVars>>

Next == Parse \/ ParseFormats \/ MatchSelf

Spec == Init /\ [][Next]_vars

\* matchAddress on two records
InitMatch ==
  /\ pc = "idle"
  /\ q \in ValidRecords \cup InvalidArgs
  /\ c \in ValidRecords \cup InvalidArgs
  /\ verdict = NotCalled
  /\ form = NotCalled
  /\ raw = NotCalled /\ suburbHint = NotCalled /\ cityHint = NotCalled
  /\ parsed = NotCalled /\ labels = <<>> /\ records = <<>>
  /\ tables = NotCalled /\ heap = <<>> /\ calls = <<>>
  /\ now = 0 /\ cache = NoCache /\ reqs = <<>> /\ backoff = NotCalled /\ page = NotCalled

\* verdict = matchAddress(q, c)
Match ==
  /\ pc = "idle" /\ q # NotCalled /\ c # NotCalled
  /\ verdict' = matchAddress(q, c)
  /\ pc' = "matched"
  /\ UNCHANGED <<form, raw, suburbHint, cityHint, parsed, labels, records, q, c, callVars, workerVars, contentVars>>

NextMatch == Match

SpecMatch == InitMatch /\ [][NextMatch]_vars

\* records that differ in their locality, with suburbs in abbreviated and in
\* expanded form, and the two records of a homes.co.nz lookup: the query
\* parsed with a suburb hint, the candidate parsed from its title
SuburbValues ==
  {Null, Str("st heliers"), Str("saint heliers"), Str("St Heliers"), Str("st"),
   Str("mt eden"), Str("mount eden village"), Str("pt chevalier"), Str("remuera")}

HintedQuery == parseAddress(Str("42 Eden Rd"), Str("St Heliers"), Undefined)

TitleCandidate == parseAddress(Str("42 Eden Road, Saint Heliers"), Undefined, Undefined)

SuburbRecords ==
  [unitNum : {Null}, houseNum : {Str("42")}, streetName : {Str("eden")},
   streetType : {Null, Str("road")}, suburb : SuburbValues,
   city : {Null, Str("auckland")}, postcode : {Null, Str("1050")}, valid : {TRUE}]
  \cup {HintedQuery, TitleCandidate}

InitSuburbs ==
  /\ pc = "idle"
  /\ q \in SuburbRecords
  /\ c \in SuburbRecords
  /\ verdict = NotCalled
  /\ form = NotCalled
  /\ raw = NotCalled /\ suburbHint = NotCalled /\ cityHint = NotCalled
  /\ parsed = NotCalled /\ labels = <<>> /\ records = <<>>
  /\ tables = NotCalled /\ heap = <<>> /\ calls = <<>>
  /\ now = 0 /\ cache = NoCache /\ reqs = <<>> /\ backoff = NotCalled /\ page = NotCalled

SpecSuburbs == InitSuburbs /\ [][NextMatch]_vars

\* the arguments of expandSuburbAbbrev: a head and a rest, and falsy values
ExpandHeads == {"", "st ", "St ", "ST ", "mt ", "Mt ", "pt ", "Pt ", "st", "saint ", "mount ", " st "}
ExpandRests == {"", "Heliers", "Mt Eden", "st clair", "pt ", " Eden"}

ExpandForms ==
       [kind : {"expand"}, head : ExpandHeads, rest : ExpandRests]
  \cup [kind : {"falsy"}, value : {Null, Undefined, Str("")}]

ExpandArg(f) == IF f.kind = "expand" THEN Str(f.head \o f.rest) ELSE f.value

InitExpand ==
  /\ pc = "expand"
  /\ form \in ExpandForms
  /\ raw = ExpandArg(form)
  /\ parsed = NotCalled
  /\ suburbHint = NotCalled /\ cityHint = NotCalled
  /\ labels = <<>> /\ records = <<>>
  /\ q = NotCalled /\ c = NotCalled /\ verdict = NotCalled
  /\ tables = NotCalled /\ heap = <<>> /\ calls = <<>>
  /\ now = 0 /\ cache = NoCache /\ reqs = <<>> /\ backoff = NotCalled /\ page = NotCalled

\* parsed = expandSuburbAbbrev(raw)
Expand ==
  /\ pc = "expand"
  /\ parsed' = expandSuburbAbbrev(raw)
  /\ pc' = "expanded"
  /\ UNCHANGED <<form, raw, suburbHint, cityHint, labels, records, q, c, verdict, callVars, workerVars, contentVars>>

\* the result is expanded once more: raw is the first result, parsed the second
ExpandAgain ==
  /\ pc = "expanded"
  /\ raw' = parsed
  /\ parsed' = expandSuburbAbbrev(parsed)
  /\ pc' = "expanded twice"
  /\ UNCHANGED <<form, suburbHint, cityHint, labels, records, q, c, verdict, callVars, workerVars, contentVars>>

NextExpand == Expand \/ ExpandAgain

SpecExpand == InitExpand /\ [][NextExpand]_vars

---------------------------------------------------------------------------
(* A series of calls of parseAddress and matchAddress on one heap.  An      *)
(* object is its index in heap; a call allocates the object it returns.     *)

\* the most calls in a series
MaxCalls == 4

\* the argument lists of parseAddress in a series of calls
CallArgs ==
  { <<Str("1/42 Mt Eden Rd, Remuera, Auckland 1050"), Undefined, Undefined>>,
    <<Str("42 Mt Eden Road"), Str("Remuera"), Null>>,
    <<Str("Eden Rd"), Undefined, Undefined>>,
    <<Num(42), Undefined, Undefined>> }

\* an allocation that returns the object of an earlier non-match
Alloc_sharedNO(h, obj) ==
  IF obj = NO /\ \E i \in 1..Len(h) : h[i] = NO
  THEN [heap |-> h, id |-> CHOOSE i \in 1..Len(h) : h[i] = NO]
  ELSE [heap |-> Append(h, obj), id |-> Len(h) + 1]

\* an object literal evaluated: a new object on the heap
Alloc(h, obj) == [heap |-> Append(h, obj), id |-> Len(h) + 1]

\* the objects parseAddress returned
IsParsed(obj) == DOMAIN obj = DOMAIN _invalid

InitCalls ==
  /\ pc = "calls"
  /\ tables = Lexicon /\ heap = <<>> /\ calls = <<>>
  /\ now = 0 /\ cache = NoCache /\ reqs = <<>> /\ backoff = NotCalled /\ page = NotCalled
  /\ form = NotCalled /\ raw = NotCalled /\ suburbHint = NotCalled /\ cityHint = NotCalled
  /\ parsed = NotCalled /\ labels = <<>> /\ records = <<>>
  /\ q = NotCalled /\ c = NotCalled /\ verdict = NotCalled

\* r = parseAddress(raw, suburbHint, cityHint): reads the tables and its
\* arguments, assigns to locals only and returns a new object
CallParse(args) ==
  /\ pc = "calls" /\ Len(calls) < MaxCalls
  /\ heap' = Alloc(heap, parseAddress(args[1], args[2], args[3])).heap
  /\ calls' = Append(calls, [fn |-> "parseAddress", args |-> args, given |-> args,
                              result |-> Alloc(heap, parseAddress(args[1], args[2], args[3])).id])
  /\ UNCHANGED <<pc, tables, parseVars, workerVars, contentVars>>

\* v = matchAddress(q, c) on two objects of the heap: reads their fields and
\* returns a new object
CallMatch(qi, ci) ==
  /\ pc = "calls" /\ Len(calls) < MaxCalls
  /\ IsParsed(heap[qi]) /\ IsParsed(heap[ci])
  /\ heap' = Alloc(heap, matchAddress(heap[qi], heap[ci])).heap
  /\ calls' = Append(calls, [fn |-> "matchAddress", args |-> <<qi, ci>>,
                              given |-> <<heap[qi], heap[ci]>>,
                              result |-> Alloc(heap, matchAddress(heap[qi], heap[ci])).id])
  /\ UNCHANGED <<pc, tables, parseVars, workerVars, contentVars>>

NextCalls ==
  \/ \E args \in CallArgs : CallParse(args)
  \/ \E qi, ci \in 1..Len(heap) : CallMatch(qi, ci)

SpecCalls == InitCalls /\ [][NextCalls]_vars

---------------------------------------------------------------------------
(* The service worker.  A task (a message, a settings read, a fetcher that  *)
(* settles) runs with the promise reactions it triggers to completion       *)
(* before the next task, so each is one action.                             *)

CACHE_TTL_MS == 30 * 60 * 1000

\* the clock moves in steps of half an hour, MaxTicks times at most
TickMs   == 30 * 60 * 1000
MaxTicks == 2

\* the fetches array of runFetchers, in its order
SOURCES == <<"OneRoof", "homes.co.nz", "PropertyValue", "RealEstate.co.nz">>

SourceNames == {SOURCES[i] : i \in 1..Len(SOURCES)}

DEFAULT_SOURCE_SETTINGS == [n \in SourceNames |-> [enabled |-> TRUE]]

\* what chrome.storage.sync holds under sources
StoredSettings ==
  { DEFAULT_SOURCE_SETTINGS,
    [n \in SourceNames |-> [enabled |-> n \in {"homes.co.nz", "RealEstate.co.nz"}]],
    [n \in SourceNames |-> [enabled |-> FALSE]] }

\* address.fullAddress and sender.tab?.id ?? null of the messages: a listing
\* page in tab 7 and a sender without tab; the messages a run receives at most
Senders ==
  { [key |-> "1 Queen St, Auckland", tabId |-> Num(7)],
    [key |-> "2 King St, Auckland", tabId |-> Null] }
Messages == {1, 2}

\* the most fetchers of one message that reject, and the most that resolve
\* with a request error
MaxRejected == 1
MaxFailed   == 1

\* cache.get(fullAddress): undefined without entry
cacheGet(m, key) == IF key \in DOMAIN m THEN m[key] ELSE Undefined

cacheSet(m, key, entry) == [k \in DOMAIN m \cup {key} |-> IF k = key THEN entry ELSE m[k]]

cacheDelete(m, key) == [k \in DOMAIN m \ {key} |-> m[k]]

\* getCached without the age test
getCached_noExpiry(m, key, t) ==
  IF cacheGet(m, key) = Undefined THEN [cache |-> m, results |-> Null]
  ELSE [cache |-> m, results |-> cacheGet(m, key).results]

\* getCached(fullAddress) at time t: the cache it leaves and what it returns
getCached(m, key, t) ==
  IF cacheGet(m, key) = Undefined THEN [cache |-> m, results |-> Null]
  ELSE IF t - cacheGet(m, key).timestamp > CACHE_TTL_MS
       THEN [cache |-> cacheDelete(m, key), results |-> Null]
       ELSE [cache |-> m, results |-> cacheGet(m, key).results]

\* setCached(fullAddress, results) at time t
setCached(m, key, results, t) == cacheSet(m, key, [timestamp |-> t, results |-> results])

disabledResult(source) ==
  [source |-> source, estimate |-> Null, url |-> Null, confidence |-> Null,
   error |-> Null, disabled |-> TRUE]

\* what a fetcher resolves with for message r, and what allSettled's
\* callback makes of a rejection
fetchedResult(source, r) ==
  [source |-> source, estimate |-> Str("estimate"), url |-> Str("url"),
   confidence |-> Str("high"), error |-> Null, fetchedFor |-> r]

\* what a fetcher resolves with when its request failed, e.g.
\* 'RealEstate.co.nz request failed'
failedResult(source, r) ==
  [source |-> source, estimate |-> Null, url |-> Null, confidence |-> Null,
   error |-> Str("request failed"), fetchedFor |-> r]

rejectedResult ==
  [source |-> "unknown", estimate |-> Null, url |-> Null, confidence |-> Null,
   error |-> Str("reason")]

\* sources[name]?.enabled !== false
enabled(sources, name) == sources[name].enabled # FALSE

Settled(req) ==
  \A i \in 1..Len(SOURCES) : req.status[i] \in {"fulfilled", "failed", "rejected", "disabled"}

\* outcomes.map(...): one result per fetch, in the order of the array
resultsOf(req, r) ==
  [i \in 1..Len(SOURCES) |->
     CASE req.status[i] = "fulfilled" -> fetchedResult(SOURCES[i], r)
       [] req.status[i] = "failed"    -> failedResult(SOURCES[i], r)
       [] req.status[i] = "disabled"  -> disabledResult(SOURCES[i])
       [] OTHER                       -> rejectedResult]

\* sendResponse({ ok: true, results, fromCache }); updatesBefore is the set of
\* VALUATION_UPDATE messages sent to the tab before this call
respond(req, results, fromCache) ==
  [req EXCEPT !.phase = "done",
              !.responses = Append(@, [ok |-> TRUE, results |-> results, fromCache |-> fromCache,
                                       updatesBefore |-> req.updates])]

\* p.then(result => chrome.tabs.sendMessage(tabId, { type: 'VALUATION_UPDATE', result }))
sendUpdate(req, result) ==
  IF req.tabId # Null THEN [req EXCEPT !.updates = @ \cup {result}] ELSE req

\* the updates of the promises that are already resolved, in array order
RECURSIVE sendDisabled(_, _)
sendDisabled(req, i) ==
  IF i > Len(SOURCES) THEN req
  ELSE IF req.status[i] = "disabled"
       THEN sendDisabled(sendUpdate(req, disabledResult(SOURCES[i])), i + 1)
       ELSE sendDisabled(req, i + 1)

\* a final response as soon as one fetch has settled
whenAllSettled_any(req, r) ==
  IF \E i \in 1..Len(SOURCES) : req.status[i] \in {"fulfilled", "failed", "rejected", "disabled"}
     /\ req.responses = <<>>
  THEN respond(req, resultsOf(req, r), FALSE) ELSE req

\* allSettled's callback: the final response once no fetch is pending
whenAllSettled(req, r) ==
  IF Settled(req) THEN respond(req, resultsOf(req, r), FALSE) ELSE req

\* runFetchers up to the end of its promise reactions
runFetchers(req, sources, r) ==
  whenAllSettled(
    sendDisabled([req EXCEPT !.phase = "fetching",
                             !.status = [i \in 1..Len(SOURCES) |->
                                           IF enabled(sources, SOURCES[i]) THEN "pending"
                                           ELSE "disabled"],
                             !.started = {i \in 1..Len(SOURCES) : enabled(sources, SOURCES[i])}],
                 1),
    r)

\* fetch i of message r settles: its update, then allSettled's callback
settle(req, i, outcome, r) ==
  whenAllSettled(
    CASE outcome = "fulfilled" ->
           sendUpdate([req EXCEPT !.status[i] = outcome], fetchedResult(SOURCES[i], r))
      [] outcome = "failed" ->
           sendUpdate([req EXCEPT !.status[i] = outcome], failedResult(SOURCES[i], r))
      [] OTHER -> [req EXCEPT !.status[i] = outcome],
    r)

\* the message as the listener has it before the cache lookup; lookup is the
\* entry cache.get finds for it, cleared whether a CLEAR_CACHE message was
\* handled while its fetchers were running
received(key, tabId) ==
  [key |-> key, tabId |-> tabId, phase |-> "received", lookup |-> Undefined,
   status |-> [i \in 1..Len(SOURCES) |-> "none"], started |-> {},
   updates |-> {}, responses |-> <<>>, cleared |-> FALSE]

\* the listener on FETCH_VALUATIONS with what getCached returned
listen(req, cached) ==
  IF cached # Null THEN respond(req, cached, TRUE)
  ELSE [req EXCEPT !.phase = "settings"]

\* the cache once message r is through a task
cacheAfter(m, req, r, t) ==
  IF req.phase = "done" /\ ~req.responses[1].fromCache
  THEN setCached(m, req.key, req.responses[1].results, t)
  ELSE m

InitWorker ==
  /\ pc = "worker"
  /\ now = 0 /\ cache = NoCache /\ reqs = <<>> /\ backoff = NotCalled /\ page = NotCalled
  /\ tables = Lexicon /\ heap = <<>> /\ calls = <<>>
  /\ form = NotCalled /\ raw = NotCalled /\ suburbHint = NotCalled /\ cityHint = NotCalled
  /\ parsed = NotCalled /\ labels = <<>> /\ records = <<>>
  /\ q = NotCalled /\ c = NotCalled /\ verdict = NotCalled

\* onMessage with a FETCH_VALUATIONS message
Receive(key, tabId) ==
  /\ pc = "worker" /\ Len(reqs) < Cardinality(Messages)
  /\ reqs' = Append(reqs, listen([received(key, tabId) EXCEPT !.lookup = cacheGet(cache, key)],
                                 getCached(cache, key, now).results))
  /\ cache' = getCached(cache, key, now).cache
  /\ UNCHANGED <<pc, now, backoff, parseVars, callVars, contentVars>>

\* onMessage with a CLEAR_CACHE message
ClearCache ==
  /\ pc = "worker"
  /\ cache # NoCache \/ \E r \in 1..Len(reqs) : reqs[r].phase = "fetching" /\ ~reqs[r].cleared
  /\ cache' = NoCache
  /\ reqs' = [r \in 1..Len(reqs) |->
                IF reqs[r].phase = "fetching" THEN [reqs[r] EXCEPT !.cleared = TRUE] ELSE reqs[r]]
  /\ UNCHANGED <<pc, now, backoff, parseVars, callVars, contentVars>>

\* chrome.storage.sync.get resolves with the stored settings
SettingsRead(r, sources) ==
  /\ pc = "worker" /\ r \in 1..Len(reqs) /\ reqs[r].phase = "settings"
  /\ reqs' = [reqs EXCEPT ![r] = runFetchers(@, sources, r)]
  /\ cache' = cacheAfter(cache, runFetchers(reqs[r], sources, r), r, now)
  /\ UNCHANGED <<pc, now, backoff, parseVars, callVars, contentVars>>

\* chrome.storage.sync.get rejects: the defaults are used
SettingsFailed(r) ==
  /\ pc = "worker" /\ r \in 1..Len(reqs) /\ reqs[r].phase = "settings"
  /\ reqs' = [reqs EXCEPT ![r] = runFetchers(@, DEFAULT_SOURCE_SETTINGS, r)]
  /\ cache' = cacheAfter(cache, runFetchers(reqs[r], DEFAULT_SOURCE_SETTINGS, r), r, now)
  /\ UNCHANGED <<pc, now, backoff, parseVars, callVars, contentVars>>

\* a fetcher's promise is fulfilled, with an estimate or with a request error,
\* or rejected
Settle(r, i, outcome) ==
  /\ pc = "worker" /\ r \in 1..Len(reqs) /\ reqs[r].phase = "fetching"
  /\ reqs[r].status[i] = "pending"
  /\ outcome = "rejected" =>
       Cardinality({j \in 1..Len(SOURCES) : reqs[r].status[j] = "rejected"}) < MaxRejected
  /\ outcome = "failed" =>
       Cardinality({j \in 1..Len(SOURCES) : reqs[r].status[j] = "failed"}) < MaxFailed
  /\ reqs' = [reqs EXCEPT ![r] = settle(@, i, outcome, r)]
  /\ cache' = cacheAfter(cache, settle(reqs[r], i, outcome, r), r, now)
  /\ UNCHANGED <<pc, now, backoff, parseVars, callVars, contentVars>>

\* time passes
Tick ==
  /\ pc = "worker" /\ now < MaxTicks * TickMs
  /\ now' = now + TickMs
  /\ UNCHANGED <<pc, cache, reqs, backoff, parseVars, callVars, contentVars>>

\* CLEAR_CACHE arrives here when something is cached
NextWorker ==
  \/ \E m \in Senders : Receive(m.key, m.tabId)
  \/ cache # NoCache /\ ClearCache
  \/ \E r \in Messages, sources \in StoredSettings : SettingsRead(r, sources)
  \/ \E r \in Messages : SettingsFailed(r)
  \/ \E r \in Messages, i \in 1..Len(SOURCES), outcome \in {"fulfilled", "rejected"} :
       Settle(r, i, outcome)
  \/ Tick

SpecWorker == InitWorker /\ [][NextWorker]_vars

\* /address not found/i and /no estimate|not available/i on the error texts
\* of the fetchers
NotFoundErrors   == {"Address not found on RealEstate.co.nz"}
NoEstimateErrors == {"No estimate available on RealEstate.co.nz"}

\* the class setCardState gives the estimate element of the card of a result
cardClass(result) ==
  IF result = Null THEN "nzvp-estimate"
  ELSE IF Truthy(result.estimate) THEN "nzvp-success"
  ELSE IF \/ "disabled" \in DOMAIN result /\ result.disabled
          \/ ~Truthy(result.error)
          \/ result.error.s \in NotFoundErrors THEN "nzvp-not-found"
  ELSE IF result.error.s \in NoEstimateErrors THEN "nzvp-no-estimate"
  ELSE "nzvp-error-state"

\* the messages of one listing page whose fetchers resolve with an estimate
\* or with a request error
RetrySender == [key |-> "1 Queen St, Auckland", tabId |-> Num(7)]

NextRetry ==
  \/ Receive(RetrySender.key, RetrySender.tabId)
  \/ ClearCache
  \/ \E r \in Messages, sources \in StoredSettings : SettingsRead(r, sources)
  \/ \E r \in Messages, i \in 1..Len(SOURCES), outcome \in {"fulfilled", "failed"} :
       Settle(r, i, outcome)
  \/ Tick

SpecRetry == InitWorker /\ [][NextRetry]_vars

---------------------------------------------------------------------------
(* fetchWithBackoff: one call from its first request to its return. Every   *)
(* await is a step of its own: the response of fetchWithTimeout, then the   *)
(* timer of the delay.                                                      *)

\* maxRetries = 3 when the argument is left out, as every caller does
DefaultMaxRetries == 3

\* the largest maxRetries a call is made with
MaxRetries == 3

\* HTTP statuses of the responses
Statuses == {200, 404, 429, 503}

\* Math.random() * 400, rounded: the least and the largest jitter
Jitters == {0, 399}

RECURSIVE Pow2(_)
Pow2(n) == IF n = 0 THEN 1 ELSE 2 * Pow2(n - 1)

\* the call at its first loop test; result is Undefined until a return
called(maxRetries) ==
  [maxRetries |-> IF maxRetries = Undefined THEN DefaultMaxRetries ELSE maxRetries.n,
   attempt |-> 0, at |-> "fetch", statuses |-> <<>>, waits |-> <<>>, result |-> Undefined]

\* the loop body without line 132: a 429 is always followed by a delay
afterResponse_alwaysWait(b, status, jitter) ==
  IF status # 429
  THEN [b EXCEPT !.statuses = Append(@, status), !.at = "returned",
                 !.result = [status |-> status]]
  ELSE [b EXCEPT !.statuses = Append(@, status), !.at = "wait",
                 !.waits = Append(@, 1000 * Pow2(b.attempt) + jitter)]

\* lines 131-134 with the response of fetchWithTimeout
afterResponse(b, status, jitter) ==
  IF status # 429 \/ b.attempt = b.maxRetries
  THEN [b EXCEPT !.statuses = Append(@, status), !.at = "returned",
                 !.result = [status |-> status]]
  ELSE [b EXCEPT !.statuses = Append(@, status), !.at = "wait",
                 !.waits = Append(@, 1000 * Pow2(b.attempt) + jitter)]

\* line 134 resolves: attempt++ and the loop test; past the loop the function
\* returns undefined
afterDelay(b) ==
  IF b.attempt + 1 <= b.maxRetries
  THEN [b EXCEPT !.attempt = @ + 1, !.at = "fetch"]
  ELSE [b EXCEPT !.attempt = @ + 1, !.at = "returned", !.result = Undefined]

InitBackoff ==
  /\ pc = "backoff"
  /\ backoff \in {called(m) : m \in {Undefined} \cup {Num(n) : n \in 0..MaxRetries}}
  /\ now = 0 /\ cache = NoCache /\ reqs = <<>> /\ page = NotCalled
  /\ tables = Lexicon /\ heap = <<>> /\ calls = <<>>
  /\ form = NotCalled /\ raw = NotCalled /\ suburbHint = NotCalled /\ cityHint = NotCalled
  /\ parsed = NotCalled /\ labels = <<>> /\ records = <<>>
  /\ q = NotCalled /\ c = NotCalled /\ verdict = NotCalled

\* fetchWithTimeout resolves with a response
Response(status, jitter) ==
  /\ pc = "backoff" /\ backoff.at = "fetch"
  /\ backoff' = afterResponse(backoff, status, jitter)
  /\ UNCHANGED <<pc, now, cache, reqs, parseVars, callVars, contentVars>>

\* fetchWithTimeout rejects (network error or abort): the call rejects
Rejection ==
  /\ pc = "backoff" /\ backoff.at = "fetch"
  /\ backoff' = [backoff EXCEPT !.statuses = Append(@, 0), !.at = "thrown"]
  /\ UNCHANGED <<pc, now, cache, reqs, parseVars, callVars, contentVars>>

\* the timer of the delay fires
Delay ==
  /\ pc = "backoff" /\ backoff.at = "wait"
  /\ backoff' = afterDelay(backoff)
  /\ UNCHANGED <<pc, now, cache, reqs, parseVars, callVars, contentVars>>

NextBackoff ==
  \/ \E status \in Statuses, jitter \in Jitters : Response(status, jitter)
  \/ Rejection
  \/ Delay

SpecBackoff == InitBackoff /\ [][NextBackoff]_vars

---------------------------------------------------------------------------
(* The content script (content.js) *)

TIMEOUT_MS  == 10000
INTERVAL_MS == 300

\* the clock stops at MaxClock and the framework renders a listing's data
\* within MaxRenderDelay or not at all; the most SPA navigations,
\* FETCH_VALUATIONS messages, VALUATION_UPDATE messages and removals of the
\* panel by the page's framework in one run
MaxClock       == 10800
MaxRenderDelay == 600
MaxNavigations == 2
MaxRequests    == 2
MaxUpdates     == 1
MaxWipes       == 1

\* location.href: two listings and a search page
Pages == {"/listing/1", "/listing/2", "/search"}

\* window.NZValuatorAdapter.isListingPage()
isListingPage(href) == href \in {"/listing/1", "/listing/2"}

\* the fullAddress the listing's data gives
addressOf(href) == IF href = "/listing/1" THEN Str("1 Queen St, Auckland")
                   ELSE Str("2 King St, Auckland")

\* the text typed into the manual input
TypedAddress == Str("3 Search St")

\* window.NZValuatorAdapter.tryExtract(): the address once the framework
\* has rendered the listing's data, null before
tryExtract(p) == IF p.rendered /\ isListingPage(p.href) THEN addressOf(p.href) ELSE Null

\* what the sources have for the addresses: estimates for the first listing,
\* a request error of OneRoof for the second, request errors of all four for
\* the typed address
outcomeOf(address) ==
  CASE address = addressOf("/listing/1") -> "estimates"
    [] address = addressOf("/listing/2") -> "one failed"
    [] OTHER                             -> "all failed"

\* the result of source i of request r
resultOf(outcome, i, r) ==
  IF outcome = "all failed" \/ (outcome = "one failed" /\ i = 1)
  THEN failedResult(SOURCES[i], r) ELSE fetchedResult(SOURCES[i], r)

\* buildCardHTML: a card with its spinner; retry is the address the Retry
\* button's handler holds, null without button
loadingCard == [result |-> Null, class |-> "nzvp-estimate", retry |-> Null]

\* the shadow root injectPanel builds; cards is <<>> once the cards grid is
\* replaced by the manual input, banner the address the "Retry all" handler
\* holds
newPanel == [cards |-> [i \in 1..Len(SOURCES) |-> loadingCard], manual |-> FALSE, banner |-> Null]

\* setCardState(shadow, SOURCES[i], result): nothing without the card
setCardState(shadow, i, result) ==
  IF shadow.cards = <<>> THEN shadow
  ELSE [shadow EXCEPT !.cards[i] = [result |-> result, class |-> cardClass(result), retry |-> Null]]

RECURSIVE setCards(_, _, _)
setCards(shadow, results, i) ==
  IF i > Len(results) THEN shadow
  ELSE setCards(setCardState(shadow, i, results[i]), results, i + 1)

\* SOURCES.every(... classList.contains('nzvp-error-state'))
allFailed(shadow) ==
  /\ shadow.cards # <<>>
  /\ \A i \in 1..Len(SOURCES) : shadow.cards[i].class = "nzvp-error-state"

\* lines 256-283 once the cards are set
wireRetry(shadow, address) ==
  IF allFailed(shadow) THEN [shadow EXCEPT !.banner = address]
  ELSE IF shadow.cards = <<>> THEN shadow
  ELSE [shadow EXCEPT !.cards = [i \in 1..Len(SOURCES) |->
                                   IF shadow.cards[i].class = "nzvp-error-state"
                                   THEN [shadow.cards[i] EXCEPT !.retry = address]
                                   ELSE shadow.cards[i]]]

\* applyResults(shadow, results, address)
applyResults(shadow, results, address) ==
  wireRetry(setCards([shadow EXCEPT !.banner = Null], results, 1), address)

\* showNoAddressState(shadow) on a shadow root
showNoAddressState(shadow) == [shadow EXCEPT !.cards = <<>>, !.manual = TRUE]

\* requestValuations(address): the message is sent; outcome is what the
\* fetchers will resolve with, updates the sources whose VALUATION_UPDATE has
\* arrived, from the page the message was sent on
requestValuations(p, address) ==
  [p EXCEPT !.currentAddress = address,
            !.sent = Append(@, [address |-> address, outcome |-> outcomeOf(address), updates |-> {},
                                responded |-> FALSE, from |-> p.href]),
            !.cycle.fetches = IF p.cycle.polling THEN @ + 1 ELSE @]

\* clearTimeout(handle): the timers without the one of the handle
RECURSIVE without(_, _)
without(timers, due) ==
  IF timers = <<>> THEN timers
  ELSE IF Head(timers) = due THEN Tail(timers)
  ELSE <<Head(timers)>> \o without(Tail(timers), due)

clearTimeout(timers, handle) == IF handle = Null THEN timers ELSE without(timers, handle.n)

\* schedulePoll(): a timer is its due time, and pollTimer its handle
schedulePoll(p) ==
  [p EXCEPT !.pollTimer = Num(p.clock + INTERVAL_MS),
            !.timers = Append(@, p.clock + INTERVAL_MS)]

\* what is recorded of the poll cycle in progress: its start, the time of its
\* last tick, the messages it sent, whether it showed the manual input,
\* whether a tick of it is running, how it ended
newCycle ==
  [start |-> 0, lastTick |-> Null, fetches |-> 0, manual |-> FALSE,
   polling |-> FALSE, ended |-> "no"]

\* startPolling(); Date.now() is read here and in doPoll, and only their
\* difference is used: the clock counts from this call
startPolling(p) ==
  schedulePoll([p EXCEPT !.timers = clearTimeout(@, p.pollTimer), !.pollTimer = Null,
                         !.clock = 0, !.pollStart = 0, !.cycle = newCycle])

\* doPoll() after line 330, with the address tryExtract returned
polled(p, address) ==
  IF address # Null
  THEN [requestValuations(p, address) EXCEPT !.cycle.ended = "fetch"]
  ELSE IF p.clock - p.pollStart >= TIMEOUT_MS
       THEN IF p.currentShadow = Null
            THEN [p EXCEPT !.thrown = TRUE, !.cycle.ended = "TypeError"]
            ELSE [p EXCEPT !.currentShadow = showNoAddressState(@),
                           !.cycle.manual = TRUE, !.cycle.ended = "manual"]
       ELSE schedulePoll(p)

\* doPoll() when the timer due at due fires; lastPoll is what the tick found
doPoll(p, due) ==
  [polled([p EXCEPT !.timers = without(@, due), !.pollTimer = Null,
                    !.cycle.lastTick = Num(p.clock), !.cycle.polling = TRUE,
                    !.lastPoll = [shadow |-> p.currentShadow # Null,
                                  listing |-> isListingPage(p.href)]],
          tryExtract(p))
   EXCEPT !.cycle.polling = FALSE]

\* the script's state after its bootstrap on href
loaded(href) ==
  [href |-> href, lastUrl |-> href, rendered |-> FALSE,
   currentShadow |-> Null, currentAddress |-> Null,
   pollTimer |-> Null, pollStart |-> 0, panelObserver |-> FALSE,
   clock |-> 0, timers |-> <<>>, sent |-> <<>>,
   navigations |-> 0, updates |-> 0, wipes |-> 0, unloaded |-> FALSE, thrown |-> FALSE,
   lastPoll |-> Null,
   cycle |-> [start |-> 0, lastTick |-> Null, fetches |-> 0, manual |-> FALSE,
              polling |-> FALSE, ended |-> "none"]]

\* lines 419-423
bootstrap(p) ==
  IF isListingPage(p.href)
  THEN startPolling([p EXCEPT !.currentShadow = newPanel, !.panelObserver = TRUE])
  ELSE p

\* handleNavigation() with location.href = href
handleNavigation(p, href) ==
  IF href = p.lastUrl THEN p
  ELSE IF ~isListingPage(href)
       THEN [p EXCEPT !.lastUrl = href, !.panelObserver = FALSE,
                      !.currentShadow = Null, !.currentAddress = Null]
       ELSE startPolling([p EXCEPT !.lastUrl = href, !.panelObserver = TRUE,
                                   !.currentShadow = newPanel, !.currentAddress = Null])

\* the MutationObserver's callback when the host is no longer in the
\* document; the timer of relocatePanel changes nothing here
hostRemoved(p) ==
  IF ~isListingPage(p.href) THEN [p EXCEPT !.panelObserver = FALSE]
  ELSE IF p.currentAddress # Null
       THEN requestValuations([p EXCEPT !.currentShadow = newPanel], p.currentAddress)
       ELSE startPolling([p EXCEPT !.currentShadow = newPanel])

\* the listener on VALUATION_UPDATE with the result of source i of request r
onUpdate(p, r, i) ==
  IF p.currentShadow = Null THEN p
  ELSE [p EXCEPT !.currentShadow = setCardState(@, i, resultOf(p.sent[r].outcome, i, r))]

\* the callback of sendMessage with the response of request r
onResponse(p, r) ==
  IF p.currentShadow = Null THEN p
  ELSE [p EXCEPT !.currentShadow =
          applyResults(@, [i \in 1..Len(SOURCES) |-> resultOf(p.sent[r].outcome, i, r)],
                       p.sent[r].address)]

InitContent ==
  /\ pc = "content"
  /\ \E href \in Pages : page = bootstrap(loaded(href))
  /\ now = 0 /\ cache = NoCache /\ reqs = <<>> /\ backoff = NotCalled
  /\ tables = NotCalled /\ heap = <<>> /\ calls = <<>>
  /\ form = NotCalled /\ raw = NotCalled /\ suburbHint = NotCalled /\ cityHint = NotCalled
  /\ parsed = NotCalled /\ labels = <<>> /\ records = <<>>
  /\ q = NotCalled /\ c = NotCalled /\ verdict = NotCalled

Running == pc = "content" /\ ~page.unloaded

\* history.pushState, replaceState or popstate: the location is href, the
\* listing's data is not rendered yet
Navigate(href) ==
  /\ Running /\ page.navigations < MaxNavigations
  /\ page' = handleNavigation([page EXCEPT !.href = href, !.navigations = @ + 1,
                                           !.rendered = IF href = page.href THEN @ ELSE FALSE],
                              href)
  /\ UNCHANGED <<pc, parseVars, callVars, workerVars>>

\* the framework renders the listing's data
RenderListing ==
  /\ Running /\ isListingPage(page.href) /\ ~page.rendered /\ page.clock <= MaxRenderDelay
  /\ page' = [page EXCEPT !.rendered = TRUE]
  /\ UNCHANGED <<pc, parseVars, callVars, workerVars>>

\* 300 ms pass; nothing reads the clock without a timer, and a timer fires
\* when it is due
TimePasses ==
  /\ Running /\ page.timers # <<>> /\ page.clock + INTERVAL_MS <= MaxClock
  /\ \A k \in 1..Len(page.timers) : page.timers[k] > page.clock
  /\ page' = [page EXCEPT !.clock = @ + INTERVAL_MS]
  /\ UNCHANGED <<pc, parseVars, callVars, workerVars>>

\* a poll timer fires
DoPoll ==
  /\ Running
  /\ \E k \in 1..Len(page.timers) :
       /\ page.timers[k] <= page.clock
       /\ tryExtract(page) # Null => Len(page.sent) < MaxRequests
       /\ page' = doPoll(page, page.timers[k])
  /\ UNCHANGED <<pc, parseVars, callVars, workerVars>>

\* a VALUATION_UPDATE message of request r arrives
Update(r, i) ==
  /\ Running /\ r \in 1..Len(page.sent) /\ ~page.sent[r].responded
  /\ i \notin page.sent[r].updates /\ page.updates < MaxUpdates
  /\ page' = [onUpdate(page, r, i) EXCEPT !.sent[r].updates = @ \cup {i}, !.updates = @ + 1]
  /\ UNCHANGED <<pc, parseVars, callVars, workerVars>>

\* the response of request r arrives
Respond(r) ==
  /\ Running /\ r \in 1..Len(page.sent) /\ ~page.sent[r].responded
  /\ page' = [onResponse(page, r) EXCEPT !.sent[r].responded = TRUE]
  /\ UNCHANGED <<pc, parseVars, callVars, workerVars>>

\* a click on the Retry button of card i
ClickRetry(i) ==
  /\ Running /\ page.currentShadow # Null /\ page.currentShadow.cards # <<>>
  /\ page.currentShadow.cards[i].retry # Null /\ Len(page.sent) < MaxRequests
  /\ page' = requestValuations([page EXCEPT !.currentShadow = setCardState(@, i, Null)],
                               page.currentShadow.cards[i].retry)
  /\ UNCHANGED <<pc, parseVars, callVars, workerVars>>

\* a click on "Retry all"
ClickRetryAll ==
  /\ Running /\ page.currentShadow # Null /\ page.currentShadow.banner # Null
  /\ Len(page.sent) < MaxRequests
  /\ page' = requestValuations(
               [page EXCEPT !.currentShadow =
                  setCards([@ EXCEPT !.banner = Null], [i \in 1..Len(SOURCES) |-> Null], 1)],
               page.currentShadow.banner)
  /\ UNCHANGED <<pc, parseVars, callVars, workerVars>>

\* doSearch with a text in the manual input
Search ==
  /\ Running /\ page.currentShadow # Null /\ page.currentShadow.manual
  /\ Len(page.sent) < MaxRequests
  /\ page' = requestValuations(
               [page EXCEPT !.currentShadow.cards = newPanel.cards, !.currentShadow.manual = FALSE],
               TypedAddress)
  /\ UNCHANGED <<pc, parseVars, callVars, workerVars>>

\* the framework replaces the document's content: the host is gone and the
\* observer's callback runs
Wipe ==
  /\ Running /\ page.currentShadow # Null /\ page.panelObserver /\ page.wipes < MaxWipes
  /\ page.currentAddress # Null => Len(page.sent) < MaxRequests
  /\ page' = hostRemoved([page EXCEPT !.wipes = @ + 1])
  /\ UNCHANGED <<pc, parseVars, callVars, workerVars>>

\* beforeunload: the pending poll is cancelled and the observer stopped, and
\* the document with the script is gone
Unload ==
  /\ Running
  /\ page' = [loaded(page.href) EXCEPT !.timers = clearTimeout(page.timers, page.pollTimer),
                                       !.unloaded = TRUE]
  /\ UNCHANGED <<pc, parseVars, callVars, workerVars>>

NextContent ==
  \/ \E href \in Pages : Navigate(href)
  \/ RenderListing
  \/ TimePasses
  \/ DoPoll
  \/ \E r \in 1..MaxRequests, i \in 1..Len(SOURCES) : Update(r, i)
  \/ \E r \in 1..MaxRequests : Respond(r)
  \/ \E i \in 1..Len(SOURCES) : ClickRetry(i)
  \/ ClickRetryAll
  \/ Search
  \/ Wipe
  \/ Unload

SpecContent == InitContent /\ [][NextContent]_vars

---------------------------------------------------------------------------
(* Properties *)

Lower(s) == Text(toLowerCase(Chars(s)))

\* the words of ws with one space between them
WordsText(ws) == IF ws = <<>> THEN "" ELSE ws[1] \o Prefixed(Tail(ws), " ", 1)

\* the two suburbs, after prefix expansion, are equal or one contains the other
SuburbsAgree(a, b) ==
  LET x == Chars(expandSuburbAbbrev(a).s)
      y == Chars(expandSuburbAbbrev(b).s)
  IN  x = y \/ includes(x, y) \/ includes(y, x)

\* the five hard gates on two arguments
GatesPass(a, b) ==
  /\ ~Missing(a) /\ ~Missing(b) /\ a.valid /\ b.valid
  /\ a.houseNum = b.houseNum
  /\ \/ a.unitNum = Null /\ b.unitNum = Null
     \/ a.unitNum # Null /\ b.unitNum # Null /\ a.unitNum = b.unitNum
  /\ a.streetName = b.streetName
  /\ (a.streetType = Null \/ b.streetType = Null \/ a.streetType = b.streetType)
  /\ (a.suburb = Null \/ b.suburb = Null \/ SuburbsAgree(a.suburb, b.suburb))

ValidIffHouse(p) ==
  /\ p.valid <=> p.houseNum # Null
  /\ ~p.valid => /\ p.unitNum = Null /\ p.streetName = Null /\ p.streetType = Null
                 /\ p.suburb = Null /\ p.city = Null /\ p.postcode = Null

\* C3: a result of parseAddress is valid exactly when its house number is
\* present, and an invalid result has no field present.
C3_ValidIffHouse ==
  /\ pc \in {"parsed", "matched"} /\ parsed # TypeError => ValidIffHouse(parsed)
  /\ pc = "formats" => \A i \in 1..Len(records) : ValidIffHouse(records[i])

\* a non-empty string without a house number and street body was parsed
C3_Witness ==
  /\ pc = "parsed" /\ form.kind = "other" /\ IsString(raw) /\ raw # Str("")
  /\ suburbHint = Undefined /\ cityHint = Undefined
  /\ parsed = _invalid

ParsedAddressFields ==
  {"unitNum", "houseNum", "streetName", "streetType", "suburb", "city", "postcode", "valid"}

AbsentOrString(h) == h = Null \/ h = Undefined \/ IsString(h)

\* C4: parseAddress returns a record and raises nothing for a string raw
\* with absent or string hints; for the empty string and for a raw that is
\* not a string it returns the invalid record.
C4_NeverRaises ==
  pc = "parsed" =>
    /\ IsString(raw) /\ AbsentOrString(suburbHint) /\ AbsentOrString(cityHint)
         => parsed # TypeError /\ DOMAIN parsed = ParsedAddressFields
    /\ raw = Str("") \/ ~IsString(raw) => parsed = _invalid

\* an object was given as raw
C4_Witness == pc = "parsed" /\ raw = PlainObject /\ parsed = _invalid

\* C5: when an argument of matchAddress is missing or marked invalid the
\* result is no match without confidence, whatever the other fields hold.
C5_InvalidNoMatch ==
  pc = "matched" /\ (Missing(q) \/ ~q.valid \/ Missing(c) \/ ~c.valid)
  => verdict.match = FALSE /\ verdict.confidence = Null

\* a record against its copy marked invalid
C5_Witness ==
  /\ pc = "matched" /\ q = SampleRecord /\ c = [SampleRecord EXCEPT !.valid = FALSE]
  /\ verdict.match = FALSE

\* 2 for two suburbs present, 1 for two cities present and equal or one
\* containing the other, 2 for two postcodes present and equal
LocalityScore(a, b) ==
    (IF a.suburb # Null /\ b.suburb # Null THEN 2 ELSE 0)
  + (IF a.city # Null /\ b.city # Null
        /\ (a.city = b.city \/ includes(Chars(a.city.s), Chars(b.city.s))
                            \/ includes(Chars(b.city.s), Chars(a.city.s)))
     THEN 1 ELSE 0)
  + (IF a.postcode # Null /\ b.postcode # Null /\ a.postcode = b.postcode THEN 2 ELSE 0)

\* C6: for a pair that matches, the locality score is within 0..5 and the
\* confidence is "high" for a score of 3 or more, "medium" for 1 or 2, "low"
\* for 0; confidence is absent exactly when there is no match, and a pair
\* that passes the gates matches whatever its score.
C6_Confidence ==
  pc = "matched" =>
    /\ verdict.confidence = Null <=> ~verdict.match
    /\ GatesPass(q, c) => verdict.match
    /\ verdict.match =>
         /\ LocalityScore(q, c) \in 0..5
         /\ verdict.confidence = Str("high")   <=> LocalityScore(q, c) >= 3
         /\ verdict.confidence = Str("medium") <=> LocalityScore(q, c) \in 1..2
         /\ verdict.confidence = Str("low")    <=> LocalityScore(q, c) = 0

\* a match of score 2: suburbs present, cities apart, postcodes apart
C6_Witness ==
  /\ pc = "matched" /\ verdict.match /\ verdict.confidence = Str("medium")
  /\ q.suburb # Null /\ c.suburb # Null
  /\ q.city # Null /\ c.city # Null /\ q.postcode # Null /\ c.postcode # Null

\* C7: a valid result of parseAddress matches itself, with score 5 and
\* confidence "high" when its suburb, city and postcode are all present.
C7_Reflexive ==
  pc = "matched" /\ parsed # NotCalled /\ parsed.valid =>
    /\ q = parsed /\ c = parsed /\ verdict.match
    /\ parsed.suburb # Null /\ parsed.city # Null /\ parsed.postcode # Null
         => score(parsed, parsed) = 5 /\ verdict.confidence = Str("high")

\* a parsed address with unit, suburb, city and postcode matched with itself
C7_Witness ==
  /\ pc = "matched" /\ parsed # NotCalled /\ parsed.valid
  /\ parsed.unitNum # Null
  /\ parsed.suburb # Null /\ parsed.city # Null /\ parsed.postcode # Null
  /\ verdict.confidence = Str("high")

\* C8: "u/h s, L", "Unit u, h s, L", "Flat u, h s, L" and "Flat u h s, L"
\* parse to records with the same unit number, house number, street name,
\* street type, suburb, city and postcode.
C8_FormatsConverge ==
  pc = "formats" => \A i, j \in 1..Len(records) : records[i] = records[j]

\* four formats parsed to a valid record with a unit, a suburb and a city
C8_Witness ==
  /\ pc = "formats" /\ Len(records) = 4
  /\ records[3].valid /\ records[3].unitNum = Str(Lower(form.unit))
  /\ records[3].suburb # Null /\ records[3].city # Null

\* no field of p holds the text id
InNoField(p, id) ==
  \A f \in ParsedAddressFields \ {"valid"} :
    p[f] # Null /\ IsString(p[f]) => ~includes(Chars(p[f].s), Chars(id))

\* C9: a string without comma "h name-words type-word locality-words
\* postcode", with or without a property ID of 5 or more digits behind it,
\* parses to the house number h, the name words in lowercase (a leading
\* mt, st or pt expanded), the canonical street type, the postcode, and a
\* suburb made of the locality words; the ID is in no field.
C9_RunOnSlug ==
  pc = "parsed" /\ form.kind = "slug" /\ form.name # <<>> /\ form.type # "" =>
    /\ parsed.valid
    /\ parsed.houseNum = Str(Lower(form.house))
    /\ parsed.streetName = expandSuburbAbbrev(Str(Lower(WordsText(form.name))))
    /\ parsed.streetType = Str(IF Lower(form.type) \in Abbreviations
                               THEN STREET_TYPE_MAP[Lower(form.type)]
                               ELSE Lower(form.type))
    /\ parsed.postcode = Str(form.postcode)
    /\ parsed.suburb = expandSuburbAbbrev(Str(Lower(WordsText(form.words))))
    /\ form.id # "" => InNoField(parsed, form.id)

\* "1234 Eden Rd Tuakau 2121": the first 4-digit token is the house number,
\* it is taken as the postcode and stripped, and no house number is left
C9_Witness ==
  /\ pc = "parsed" /\ form.kind = "slug"
  /\ raw = Str("1234 Eden Rd Tuakau 2121") /\ parsed = _invalid

\* C10: "h n a" with the abbreviation a of the canonical street type f
\* parses to the record of "h n f"; its street type is f and its street name
\* is n in lowercase with a leading mt, st or pt expanded.
C10_Abbreviation ==
  pc = "parsed" /\ form.kind = "street" /\ Lower(form.type) \in Abbreviations =>
    /\ parsed = parseAddress(Str(form.house \o Prefixed(form.name, " ", 1) \o " "
                                 \o STREET_TYPE_MAP[Lower(form.type)]),
                             Undefined, Undefined)
    /\ parsed.streetType = Str(STREET_TYPE_MAP[Lower(form.type)])
    /\ parsed.streetName = expandSuburbAbbrev(Str(Lower(WordsText(form.name))))

\* "1234 Eden Rd": the house number is taken as a postcode and the string
\* as a run-on slug
C10_Witness ==
  /\ pc = "parsed" /\ form.kind = "street"
  /\ raw = Str("1234 Eden Rd") /\ parsed = _invalid

\* the hint in lowercase and trimmed; absent for an absent or empty hint
HintField(h) ==
  IF h = Null \/ h = Undefined THEN Null
  ELSE IF trim(toLowerCase(Chars(h.s))) = <<>> THEN Null
  ELSE Str(Text(trim(toLowerCase(Chars(h.s)))))

\* the first 4-digit token of a text, absent when it has none
FirstToken(text) ==
  IF postcodeIndex(Chars(text)) = 0 THEN Null
  ELSE Str(Text(SubSeq(Chars(text), postcodeIndex(Chars(text)), postcodeIndex(Chars(text)) + 3)))

LowerTrimmed(p) ==
  \A f \in ParsedAddressFields \ {"valid"} :
    p[f] # Null => IsString(p[f]) /\ p[f].s = Text(trim(toLowerCase(Chars(p[f].s))))

\* C12: in every valid record parseAddress returns, with or without hints,
\* every present field among unitNum, houseNum, streetName, streetType,
\* suburb, city and postcode is a string equal to its own lowercased and
\* trimmed form.
C12_LowerTrimmed ==
  /\ pc \in {"parsed", "matched"} /\ parsed # TypeError /\ parsed.valid => LowerTrimmed(parsed)
  /\ pc = "formats" => \A i \in 1..Len(records) : records[i].valid => LowerTrimmed(records[i])

\* "42 Eden Constructor": the street type is STREET_TYPE_MAP['constructor'],
\* a function, which has no lowercased form
C12_Witness ==
  /\ pc = "parsed" /\ raw = Str("42 Eden Constructor")
  /\ parsed.valid /\ parsed.streetName = Str("eden")
  /\ parsed.streetType = ObjectConstructor

\* absent or a canonical street type word
CanonicalOrAbsent(p) ==
  p.streetType = Null \/ (IsString(p.streetType) /\ p.streetType.s \in CANONICAL_STREET_TYPES)

\* C13: in every record parseAddress returns the street type is absent or a
\* word of the canonical set, whatever the last word of the street body is,
\* and every value of the abbreviation table is a word of the canonical set.
C13_CanonicalType ==
  /\ \A a \in DOMAIN STREET_TYPE_MAP : STREET_TYPE_MAP[a] \in CANONICAL_STREET_TYPES
  /\ pc \in {"parsed", "matched"} /\ parsed # TypeError => CanonicalOrAbsent(parsed)
  /\ pc = "formats" => \A i \in 1..Len(records) : CanonicalOrAbsent(records[i])

\* "42B Mt Eden __proto__": the street type is STREET_TYPE_MAP['__proto__'],
\* the prototype object of the table
C13_Witness ==
  /\ pc = "parsed" /\ raw = Str("42B Mt Eden __proto__")
  /\ parsed.valid /\ parsed.houseNum = Str("42b") /\ parsed.streetName = Str("mount eden")
  /\ parsed.streetType = ObjectPrototype

C15_Step ==
  pc = "worker" =>
    /\ Len(reqs') = Len(reqs) + 1 =>
         /\ /\ cacheGet(cache, reqs'[Len(reqs')].key) # Undefined
            /\ now - cacheGet(cache, reqs'[Len(reqs')].key).timestamp <= CACHE_TTL_MS
            => /\ reqs'[Len(reqs')].responses =
                    << [ok |-> TRUE, fromCache |-> TRUE, updatesBefore |-> {},
                        results |-> cacheGet(cache, reqs'[Len(reqs')].key).results] >>
               /\ reqs'[Len(reqs')].started = {}
               /\ cache' = cache
         /\ /\ cacheGet(cache, reqs'[Len(reqs')].key) # Undefined
            /\ now - cacheGet(cache, reqs'[Len(reqs')].key).timestamp > CACHE_TTL_MS
            => /\ reqs'[Len(reqs')].key \notin DOMAIN cache'
               /\ reqs'[Len(reqs')].responses = <<>>
               /\ reqs'[Len(reqs')].phase = "settings"
    /\ \A r \in 1..Len(reqs) :
         /\ reqs[r].phase = "done" => reqs'[r] = reqs[r]
         /\ reqs'[r].responses # reqs[r].responses =>
              /\ Len(reqs'[r].responses) = 1
              /\ reqs'[r].responses[1].fromCache = FALSE
              /\ reqs'[r].started # {} => Settled(reqs'[r])
              /\ cacheGet(cache', reqs[r].key) =
                   [timestamp |-> now, results |-> reqs'[r].responses[1].results]

\* C15: a FETCH_VALUATIONS message whose fullAddress has a cache entry not
\* older than 30 minutes is answered at once with the entry's results and
\* fromCache = true, without a fetcher being started then or later; an entry
\* older than 30 minutes is deleted by the lookup and the message goes on to
\* the fetchers, and every answer that comes from the fetchers has
\* fromCache = false and its results are in the cache under the fullAddress.
C15_ResultCache == [][C15_Step]_vars

\* the second message for an address finds the entry of the first one expired:
\* it was fetched live and its results replace the entry
C15_Witness ==
  /\ pc = "worker" /\ Len(reqs) = 2
  /\ reqs[2].lookup # Undefined /\ reqs[2].lookup.results = reqs[1].responses[1].results
  /\ reqs[2].phase = "done" /\ reqs[2].started # {}
  /\ reqs[2].responses[1].fromCache = FALSE
  /\ cache[reqs[2].key].results = reqs[2].responses[1].results
  /\ cache[reqs[2].key].results # reqs[2].lookup.results

\* what C16 says of message r once runFetchers has been called for it
C16_Of(req, r) ==
  /\ Len(req.responses) = 1 <=> Settled(req)
  /\ \A i \in 1..Len(SOURCES) : req.status[i] = "disabled" <=> i \notin req.started
  /\ req.tabId # Null =>
       \A i \in 1..Len(SOURCES) :
         req.status[i] = "fulfilled" => fetchedResult(SOURCES[i], r) \in req.updates
  /\ req.responses # <<>> =>
       /\ req.responses[1].ok /\ ~req.responses[1].fromCache
       /\ DOMAIN req.responses[1].results = 1..4
       /\ \A i \in 1..4 :
            /\ req.status[i] = "fulfilled" =>
                 /\ req.responses[1].results[i] = fetchedResult(SOURCES[i], r)
                 /\ req.tabId # Null =>
                      req.responses[1].results[i] \in req.responses[1].updatesBefore
            /\ req.status[i] = "disabled" =>
                 req.responses[1].results[i] = disabledResult(SOURCES[i])
            /\ req.status[i] = "rejected" =>
                 /\ req.responses[1].results[i].error # Null
                 /\ req.responses[1].results[i].estimate = Null
       /\ \A i \in 1..4 :
            req.responses[1].results[i].source =
              IF req.status[i] = "rejected" THEN "unknown"
              ELSE <<"OneRoof", "homes.co.nz", "PropertyValue", "RealEstate.co.nz">>[i]

\* C16: a FETCH_VALUATIONS message that is not served from the cache gets no
\* response while a fetcher is pending and exactly one from the moment all four
\* have settled; the response has four results in the order OneRoof,
\* homes.co.nz, PropertyValue, RealEstate.co.nz; a disabled source gives its
\* disabled result and no fetch is started for it; a rejected fetcher gives an
\* error result and the results and updates of the others are as without it;
\* with a tab id the VALUATION_UPDATE of every fulfilled fetcher is among the
\* messages sent before the response.
C16_FinalResponse ==
  pc = "worker" =>
    \A r \in 1..Len(reqs) :
      /\ Len(reqs[r].responses) <= 1
      /\ reqs[r].phase = "settings" => reqs[r].responses = <<>> /\ reqs[r].started = {}
      /\ reqs[r].status[1] # "none" => C16_Of(reqs[r], r)

\* a message from a tab, two sources disabled, one fetcher rejected and one
\* fulfilled: the response is there and the update was sent before it
C16_Witness ==
  /\ pc = "worker"
  /\ \E r \in 1..Len(reqs) :
       /\ reqs[r].tabId # Null
       /\ reqs[r].status = <<"disabled", "rejected", "disabled", "fulfilled">>
       /\ Len(reqs[r].responses) = 1
       /\ reqs[r].responses[1].results[2] = rejectedResult
       /\ fetchedResult("RealEstate.co.nz", r) \in reqs[r].responses[1].updatesBefore

\* C17: a call of fetchWithBackoff makes at most maxRetries + 1 requests (4
\* when maxRetries is left out); every response before the last one it
\* received had status 429 and every delay follows such a response; once it
\* has returned, its result is the response of its last request, that
\* response is the first one without status 429 or the one of request
\* maxRetries + 1, and no request and no delay followed it.
C17_Backoff ==
  pc = "backoff" =>
    /\ Len(backoff.statuses) <= backoff.maxRetries + 1
    /\ backoff.maxRetries = DefaultMaxRetries => Len(backoff.statuses) <= 4
    /\ \A k \in 1..Len(backoff.statuses) - 1 : backoff.statuses[k] = 429
    /\ Len(backoff.waits) <= Len(backoff.statuses)
    /\ \A k \in 1..Len(backoff.waits) :
         /\ backoff.statuses[k] = 429
         /\ backoff.waits[k] >= 1000 * Pow2(k - 1) /\ backoff.waits[k] < 1000 * Pow2(k - 1) + 400
    /\ backoff.at = "fetch" => Len(backoff.waits) = Len(backoff.statuses)
    /\ backoff.at \in {"returned", "thrown"} => Len(backoff.waits) = Len(backoff.statuses) - 1
    /\ backoff.at = "returned" =>
         /\ backoff.result # Undefined
         /\ backoff.result.status = backoff.statuses[Len(backoff.statuses)]
         /\ backoff.result.status = 429 => Len(backoff.statuses) = backoff.maxRetries + 1

\* the default call after four responses 429: three delays of about 1 s, 2 s
\* and 4 s, and the fourth response returned
C17_Witness ==
  /\ pc = "backoff" /\ backoff.maxRetries = 3 /\ backoff.at = "returned"
  /\ backoff.statuses = <<429, 429, 429, 429>>
  /\ backoff.waits = <<1000, 2399, 4000>>
  /\ backoff.result = [status |-> 429]

\* C18: a string without comma that begins with a house number, goes on
\* with name words and a recognized street type word, and may end with
\* locality words, a postcode and a record ID, parses to a valid record whose
\* house number is the leading number in lowercase, whatever its number of
\* digits.
C18_HouseNumber ==
  /\ pc = "parsed" /\ form.kind \in {"street", "slug"} /\ form.name # <<>>
  /\ IsStreetTypeWord(Lower(form.type))
  => parsed.valid /\ parsed.houseNum = Str(Lower(form.house))

\* "21210 Eden Rd Tuakau 2121": the postcode is cut out of the house number
C18_Witness ==
  /\ pc = "parsed" /\ raw = Str("21210 Eden Rd Tuakau 2121")
  /\ parsed.valid /\ parsed.houseNum = Str("0")

SameFlags(v, w) == v.match = w.match /\ v.confidence = w.confidence

\* C20: matchAddress(q, c) and matchAddress(c, q) have the same match flag
\* and the same confidence, for records and for arguments the guard rejects.
C20_Symmetric == pc = "matched" => SameFlags(matchAddress(c, q), verdict)

\* the query's suburb is within the candidate's and not the other way
\* round; the pair matches in both orders with the same confidence
C20_Witness ==
  /\ pc = "matched" /\ verdict.match
  /\ q.suburb = Str("mt eden") /\ c.suburb = Str("mount eden village")
  /\ q.unitNum # Null /\ q.streetType = Null /\ c.streetType # Null
  /\ q.city # c.city
  /\ matchAddress(c, q) = verdict

\* every field but valid is absent or a string of one character or more
NoEmptyString(p) ==
  \A f \in ParsedAddressFields \ {"valid"} :
    p[f] = Null \/ (IsString(p[f]) /\ p[f].s # "")

\* C21: in every record parseAddress returns each string field is null or a
\* non-empty string; for a street body that is a street type word only the
\* street name is null.
C21_NoEmptyStrings ==
  /\ pc \in {"parsed", "matched"} /\ parsed # TypeError => NoEmptyString(parsed)
  /\ pc = "formats" => \A i \in 1..Len(records) : NoEmptyString(records[i])
  /\ pc = "parsed" /\ form.kind = "street" /\ form.name = <<>>
       /\ Lower(form.type) \in CANONICAL_STREET_TYPES /\ parsed.valid
     => parsed.streetName = Null

\* "42 Road": the street name is the empty string
C21_Witness ==
  /\ pc = "parsed" /\ raw = Str("42 Road")
  /\ parsed.valid /\ parsed.houseNum = Str("42") /\ parsed.streetType = Str("road")
  /\ parsed.streetName = Str("")

\* the suburb of p is absent or does not begin with "st ", "mt " or "pt "
SuburbExpanded(p) ==
  p.suburb # Null =>
    \A k \in 1..Len(SUBURB_ABBREV_MAP) :
      ~startsWith(Chars(p.suburb.s), SUBURB_ABBREV_MAP[k][1])

\* C22: the suburb of every valid record parseAddress returns, with hints
\* or without, does not begin with the abbreviated prefix "st ", "mt " or
\* "pt ".
C22_SuburbExpanded ==
  /\ pc = "parsed" /\ parsed # TypeError /\ parsed.valid => SuburbExpanded(parsed)
  /\ pc = "formats" => \A i \in 1..Len(records) : records[i].valid => SuburbExpanded(records[i])

\* parseAddress("42 Eden Rd", " St Heliers ", "Auckland"): the suburb is the
\* hint in lowercase, its prefix not expanded
C22_Witness ==
  /\ pc = "parsed" /\ form.kind = "other" /\ raw = Str("42 Eden Rd")
  /\ suburbHint = Str(" St Heliers ") /\ cityHint = Str("Auckland")
  /\ parsed.valid /\ parsed.suburb = Str("st heliers") /\ parsed.city = Str("auckland")

\* the record with its suburb replaced by the suburb's prefix expansion
WithExpandedSuburb(p) == [p EXCEPT !.suburb = expandSuburbAbbrev(@)]

\* C23: replacing the suburb of the query, of the candidate or of both by
\* its prefix expansion changes neither the match flag nor the confidence of
\* matchAddress; a query parsed with the hint "St Heliers" matches a
\* candidate parsed from "..., Saint Heliers", the suburbs giving 2 points.
C23_AbbreviationInsensitive ==
  pc = "matched" =>
    /\ SameFlags(matchAddress(WithExpandedSuburb(q), c), verdict)
    /\ SameFlags(matchAddress(q, WithExpandedSuburb(c)), verdict)
    /\ SameFlags(matchAddress(WithExpandedSuburb(q), WithExpandedSuburb(c)), verdict)
    /\ q = HintedQuery /\ c = TitleCandidate =>
         verdict.match /\ score(q, c) = 2 /\ verdict.confidence = Str("medium")

\* the hinted query, suburb "st heliers", against the candidate from the
\* title, suburb "saint heliers"
C23_Witness ==
  /\ pc = "matched" /\ q = HintedQuery /\ c = TitleCandidate
  /\ q.suburb = Str("st heliers") /\ c.suburb = Str("saint heliers")
  /\ q.city = Null /\ c.city = Null
  /\ verdict = [match |-> TRUE, confidence |-> Str("medium"), unitFallback |-> FALSE]

\* a locality part without its trailing " - word" qualifier: a hyphen with
\* whitespace on both sides and one word behind it
WithoutQualifier(cs) ==
  IF /\ lastHyphen(cs) > 1 /\ lastHyphen(cs) < Len(cs)
     /\ cs[lastHyphen(cs) - 1] \in WhiteSpace /\ cs[lastHyphen(cs) + 1] \in WhiteSpace
  THEN stripDashSuffix(cs) ELSE cs

\* the parts without qualifier and postcode token, the empty ones dropped
RemainingParts(parts) ==
  SelectSeq([i \in 1..Len(parts) |->
               trim(stripPostcodeToken(trim(WithoutQualifier(Chars(parts[i])))))],
            NonEmpty)

\* C24: for a string with a comma and no hints, the suburb is the first and the city the second of the
\* locality parts that are not empty once a trailing " - word" qualifier and
\* a 4-digit postcode token are removed, in lowercase and prefix-expanded; a
\* part that is a postcode only is neither; the postcode is the first
\* 4-digit token of the parts in their order.
C24_Locality ==
  pc = "parsed" /\ form.kind = "comma" /\ form.parts # <<>> /\ parsed.valid =>
    /\ parsed.suburb = localWord(RemainingParts(form.parts), 1)
    /\ parsed.city = localWord(RemainingParts(form.parts), 2)
    /\ parsed.postcode = FirstToken(Prefixed(form.parts, ", ", 1))

\* "42 Eden Rd, Saint-Heliers, Auckland - City": the suburb is cut at its
\* hyphen
C24_Witness ==
  /\ pc = "parsed" /\ raw = Str("42 Eden Rd, Saint-Heliers, Auckland - City")
  /\ parsed.valid /\ parsed.suburb = Str("saint") /\ parsed.city = Str("auckland")

\* the abbreviations the lowercase form of a string begins with (one at most)
PrefixesOf(v) ==
  {k \in 1..Len(SUBURB_ABBREV_MAP) : startsWith(toLowerCase(Chars(v.s)), SUBURB_ABBREV_MAP[k][1])}

\* C25: expandSuburbAbbrev returns a falsy value and a string that does not
\* begin, in any case, with "st ", "mt " or "pt " as they are; in a string that
\* does, it replaces the three characters by "saint ", "mount " or "point "
\* and keeps the rest character for character; expanding the result again
\* changes nothing.
C25_ExpandOnce ==
  /\ pc = "expanded" =>
       /\ form.kind = "falsy" => parsed = raw
       /\ form.kind = "expand" /\ PrefixesOf(raw) = {} => parsed = raw
       /\ form.kind = "expand" =>
            \A k \in PrefixesOf(raw) :
              /\ PrefixesOf(raw) = {k}
              /\ parsed = Str(<<"saint ", "mount ", "point ">>[k]
                              \o Text(SubSeq(Chars(raw.s), 4, Len(raw.s))))
  /\ pc = "expanded twice" => parsed = raw

\* "ST st clair": the first three characters are replaced, the second "st "
\* stays, and a second expansion leaves "saint st clair" as it is
C25_Witness ==
  /\ pc = "expanded twice" /\ form.kind = "expand"
  /\ form.head = "ST " /\ form.rest = "st clair"
  /\ raw = Str("saint st clair") /\ parsed = Str("saint st clair")

\* a response that leaves a card of the panel in the error state, with its
\* Retry button or, when all four are, the "Retry all" button
HasErrorCard(response) ==
  \E i \in 1..Len(SOURCES) :
    /\ response.results[i].source = SOURCES[i]
    /\ cardClass(response.results[i]) = "nzvp-error-state"

\* what C26 says of one step of the service worker
C26_Step ==
  /\ pc = "worker" /\ Len(reqs') = Len(reqs) + 1
  /\ \E r \in 1..Len(reqs) :
       /\ reqs[r].key = reqs'[Len(reqs')].key
       /\ reqs[r].responses # <<>> /\ HasErrorCard(reqs[r].responses[1])
  => /\ reqs'[Len(reqs')].responses = <<>>
     /\ reqs'[Len(reqs')].phase = "settings"

\* C26: a FETCH_VALUATIONS message for an address whose earlier response left
\* a source in the error state (what the Retry and "Retry all" buttons send)
\* is not answered from the cache: it goes on to the fetchers.
C26_RetryRefetches == [][C26_Step]_vars

\* OneRoof's request failed for the first message; the second message for the
\* address is answered from the cache with the failed result of the first
C26_Witness ==
  /\ pc = "worker" /\ Len(reqs) = 2 /\ reqs[1].key = reqs[2].key
  /\ reqs[1].responses # <<>> /\ ~reqs[1].responses[1].fromCache
  /\ reqs[1].responses[1].results[1] = failedResult("OneRoof", 1)
  /\ reqs[2].responses # <<>> /\ reqs[2].responses[1].fromCache
  /\ reqs[2].responses[1].results = reqs[1].responses[1].results
  /\ reqs[2].started = {}

\* the results hold a value a fetcher of message r resolved with
FetchedBy(results, r) ==
  \E i \in 1..Len(SOURCES) :
    results[i] \in {fetchedResult(SOURCES[i], r), failedResult(SOURCES[i], r)}

\* C28: no FETCH_VALUATIONS message is answered with fromCache = true from
\* the results of a fetch during which a CLEAR_CACHE message was handled.
C28_ClearIsEffective ==
  pc = "worker" =>
    \A r1, r2 \in 1..Len(reqs) :
      /\ reqs[r2].responses # <<>> /\ reqs[r2].responses[1].fromCache
      /\ FetchedBy(reqs[r2].responses[1].results, r1)
      => ~reqs[r1].cleared

\* the cache was cleared while the fetchers of the first message were running;
\* their results were cached afterwards and answer the second message
C28_Witness ==
  /\ pc = "worker" /\ Len(reqs) = 2
  /\ reqs[1].cleared /\ reqs[1].responses # <<>> /\ ~reqs[1].responses[1].fromCache
  /\ reqs[2].lookup # Undefined /\ reqs[2].lookup.results = reqs[1].responses[1].results
  /\ reqs[2].responses # <<>> /\ reqs[2].responses[1].fromCache
  /\ FetchedBy(reqs[2].responses[1].results, 1)

\* the results the cards of the current panel show
Shown(p) ==
  IF p.currentShadow = Null \/ p.currentShadow.cards = <<>> THEN {}
  ELSE {p.currentShadow.cards[i].result : i \in 1..Len(SOURCES)} \ {Null}

\* C27: every result a card of the current panel shows belongs to a request
\* that was issued on the current listing, not to one issued before an SPA
\* navigation on another listing.
C27_NoStaleResults ==
  pc = "content" =>
    \A result \in Shown(page) : page.sent[result.fetchedFor].from = page.href

\* the request of the first listing was answered after the navigation to the
\* second one: the new panel shows its four results
C27_Witness ==
  /\ pc = "content" /\ page.href = "/listing/2" /\ page.navigations = 1
  /\ Len(page.sent) = 1 /\ page.sent[1].from = "/listing/1" /\ page.sent[1].responded
  /\ page.sent[1].address = addressOf("/listing/1")
  /\ Shown(page) = {fetchedResult(SOURCES[i], 1) : i \in 1..Len(SOURCES)}

\* C29: a poll tick runs with a panel and on a listing page only; no
\* FETCH_VALUATIONS message is sent on another page and the manual input is
\* not shown there.
C29_PollsOnListingOnly ==
  pc = "content" =>
    /\ page.lastPoll # Null => page.lastPoll.shadow /\ page.lastPoll.listing
    /\ \A r \in 1..Len(page.sent) : isListingPage(page.sent[r].from)
    /\ page.currentShadow # Null /\ page.currentShadow.manual => isListingPage(page.href)

\* the poll that was pending at the navigation to the search page has fired
\* there, without panel
C29_Witness ==
  /\ pc = "content" /\ page.href = "/search" /\ page.navigations = 1
  /\ page.lastPoll = [shadow |-> FALSE, listing |-> FALSE]
  /\ page.currentShadow = Null /\ page.sent = <<>>

\* the time the pending tick of the cycle is scheduled from
LastTickOrStart(cycle) == IF cycle.lastTick = Null THEN cycle.start ELSE cycle.lastTick.n

\* C30: at most one poll timer is pending, and it is the one pollTimer is the
\* handle of; it is due 300 ms after the start of the cycle or its last tick;
\* a cycle whose tick ran 10 s or more after its start has ended; a cycle
\* ends with one FETCH_VALUATIONS message and no manual input or with the
\* manual input and no message; once it has ended no timer is pending.
C30_SingleBoundedPoll ==
  pc = "content" /\ ~page.unloaded =>
    /\ Len(page.timers) <= 1
    /\ page.timers = IF page.pollTimer = Null THEN <<>> ELSE <<page.pollTimer.n>>
    /\ \A k \in 1..Len(page.timers) :
         page.timers[k] = LastTickOrStart(page.cycle) + INTERVAL_MS
    /\ page.cycle.lastTick # Null /\ page.cycle.lastTick.n - page.cycle.start >= TIMEOUT_MS
         => page.cycle.ended # "no"
    /\ page.cycle.ended \notin {"no", "none"} =>
         \/ page.cycle.ended = "fetch" /\ page.cycle.fetches = 1 /\ ~page.cycle.manual
         \/ page.cycle.ended = "manual" /\ page.cycle.fetches = 0 /\ page.cycle.manual
    /\ page.cycle.ended # "no" => page.timers = <<>>

\* the cycle that went on after the navigation to the search page ends at
\* its tick at 10.2 s: showNoAddressState(null) throws, no message was sent
\* and no manual input is shown
C30_Witness ==
  /\ pc = "content" /\ page.href = "/search" /\ page.thrown
  /\ page.cycle.ended = "TypeError" /\ page.cycle.lastTick = Num(10200)
  /\ page.cycle.fetches = 0 /\ ~page.cycle.manual
  /\ page.timers = <<>> /\ page.pollTimer = Null

====
